---------------------------- MODULE Spec2Model ----------------------------
(***************************************************************************)
(* Voice-intent dispatcher and half-duplex audio coordination of           *)
(* components/InteractiveAvatar.tsx: the classifier analyzeVoiceIntent as  *)
(* operators, and the component (state, refs, the recognizer, the calls    *)
(* awaiting the chat endpoint, the avatar and the timers) as a state       *)
(* machine with one action per handler step.                               *)
(*                                                                         *)
(* A JavaScript string is a sequence of characters.  A Hangul syllable is  *)
(* one UTF-16 code unit and is written here by its romanised jamo, with    *)
(* "x" for the silent initial, so that every syllable is a token of two or *)
(* more letters ("hwa", "xo") and differs from every Latin letter ("g").   *)
(* Each table row carries the source literal in its comment.               *)
(***************************************************************************)
EXTENDS Naturals, Sequences, FiniteSets

(***************************************************************************)
(* VOICE_COMMAND_PATTERNS: Object.entries() enumerates string keys in      *)
(* insertion order, so each table is the sequence of its entries.          *)
(***************************************************************************)
GAME_START ==
  <<
    [game |-> <<"h", "w", "a", "t", "u">>,
     keywords |-> <<
       <<"hwa", "tu">>,   \* 화투
       <<"ka", "deu">>,   \* 카드
       <<"jjag", "maj", "chu", "gi">>,   \* 짝맞추기
       <<"jjag", " ", "maj", "chu", "gi">>,   \* 짝 맞추기
       <<"ka", "deu", "ge", "xim">>,   \* 카드게임
       <<"ka", "deu", " ", "ge", "xim">>,   \* 카드 게임
       <<"hwa", "tu", " ", "si", "jag">>,   \* 화투 시작
       <<"ka", "deu", " ", "si", "jag">>,   \* 카드 시작
       <<"jjag", "maj", "chu", "gi", " ", "si", "jag">>,   \* 짝맞추기 시작
       <<"jjag", "maj", "chu", "gi", " ", "hae">>,   \* 짝맞추기 해
       <<"jjag", "maj", "chu", "gi", " ", "ha", "ja">>,   \* 짝맞추기 하자
       <<"hwa", "tu", " ", "ge", "xim">>,   \* 화투 게임
       <<"ka", "deu", "jjag">>,   \* 카드짝
       <<"geu", "rim", " ", "maj", "chu", "gi">>    \* 그림 맞추기
     >>],
    [game |-> <<"p", "a", "t", "t", "e", "r", "n">>,
     keywords |-> <<
       <<"saeg", "sang">>,   \* 색상
       <<"pae", "teon">>,   \* 패턴
       <<"saeg", "kkal">>,   \* 색깔
       <<"saeg", "sang", " ", "pae", "teon">>,   \* 색상 패턴
       <<"saeg", "kkal", " ", "gi", "xeog">>,   \* 색깔 기억
       <<"saeg", "sang", " ", "ge", "xim">>,   \* 색상 게임
       <<"pae", "teon", " ", "ge", "xim">>,   \* 패턴 게임
       <<"saeg", "sang", " ", "si", "jag">>,   \* 색상 시작
       <<"pae", "teon", " ", "si", "jag">>,   \* 패턴 시작
       <<"saeg", "kkal", " ", "maj", "chu", "gi">>,   \* 색깔 맞추기
       <<"sa", "xi", "meon">>,   \* 사이먼
       <<"saeg", "kkal", " ", "sun", "seo">>    \* 색깔 순서
     >>],
    [game |-> <<"m", "e", "m", "o", "r", "y">>,
     keywords |-> <<
       <<"sus", "ja">>,   \* 숫자
       <<"sus", "ja", " ", "gi", "xeog">>,   \* 숫자 기억
       <<"sus", "ja", " ", "xoe", "xu", "gi">>,   \* 숫자 외우기
       <<"sus", "ja", " ", "ge", "xim">>,   \* 숫자 게임
       <<"sus", "ja", " ", "maj", "chu", "gi">>,   \* 숫자 맞추기
       <<"sus", "ja", " ", "si", "jag">>,   \* 숫자 시작
       <<"sus", "ja", " ", "gi", "xeog", "ha", "gi">>,   \* 숫자 기억하기
       <<"sus", "ja", " ", "xoe", "xu", "gi", " ", "ha", "ja">>,   \* 숫자 외우기 하자
       <<"beon", "ho", " ", "gi", "xeog">>    \* 번호 기억
     >>],
    [game |-> <<"p", "r", "o", "v", "e", "r", "b">>,
     keywords |-> <<
       <<"sog", "dam">>,   \* 속담
       <<"sog", "dam", " ", "xwan", "seong">>,   \* 속담 완성
       <<"sog", "dam", " ", "ge", "xim">>,   \* 속담 게임
       <<"sog", "dam", " ", "maj", "chu", "gi">>,   \* 속담 맞추기
       <<"sog", "dam", " ", "si", "jag">>,   \* 속담 시작
       <<"sog", "dam", " ", "xwan", "seong", "ha", "gi">>,   \* 속담 완성하기
       <<"sog", "dam", " ", "ha", "ja">>,   \* 속담 하자
       <<"xyes", "mal">>,   \* 옛말
       <<"gyeog", "xeon">>    \* 격언
     >>],
    [game |-> <<"c", "a", "l", "c">>,
     keywords |-> <<
       <<"gye", "san">>,   \* 계산
       <<"san", "su">>,   \* 산수
       <<"deos", "sem">>,   \* 덧셈
       <<"ppael", "sem">>,   \* 뺄셈
       <<"gye", "san", " ", "ge", "xim">>,   \* 계산 게임
       <<"san", "su", " ", "ge", "xim">>,   \* 산수 게임
       <<"gye", "san", " ", "si", "jag">>,   \* 계산 시작
       <<"san", "su", " ", "si", "jag">>,   \* 산수 시작
       <<"gye", "san", " ", "ha", "ja">>,   \* 계산 하자
       <<"san", "su", " ", "ha", "ja">>,   \* 산수 하자
       <<"su", "hag">>,   \* 수학
       <<"deo", "ha", "gi", " ", "ppae", "gi">>,   \* 더하기 빼기
       <<"san", "su", " ", "gye", "san">>    \* 산수 계산
     >>],
    [game |-> <<"s", "e", "q", "u", "e", "n", "c", "e">>,
     keywords |-> <<
       <<"sun", "seo">>,   \* 순서
       <<"sun", "seo", " ", "maj", "chu", "gi">>,   \* 순서 맞추기
       <<"geu", "rim", " ", "sun", "seo">>,   \* 그림 순서
       <<"sun", "seo", " ", "ge", "xim">>,   \* 순서 게임
       <<"sun", "seo", " ", "si", "jag">>,   \* 순서 시작
       <<"sun", "seo", " ", "maj", "chu", "gi", " ", "ha", "ja">>,   \* 순서 맞추기 하자
       <<"sun", "seo", " ", "jeong", "ha", "gi">>,   \* 순서 정하기
       <<"cha", "rye">>,   \* 차례
       <<"bae", "xyeol">>    \* 배열
     >>]
  >>

UI_CONTROL ==
  <<
    [action |-> <<"S", "H", "O", "W", "_", "M", "Y", "_", "R", "E", "C", "O", "R", "D", "S">>,
     keywords |-> <<
       <<"nae", " ", "jeom", "su">>,   \* 내 점수
       <<"nae", " ", "gi", "rog">>,   \* 내 기록
       <<"jeom", "su", " ", "bo", "xyeo">>,   \* 점수 보여
       <<"gi", "rog", " ", "bo", "xyeo">>,   \* 기록 보여
       <<"nae", " ", "jeom", "su", " ", "bo", "xyeo", "jwo">>,   \* 내 점수 보여줘
       <<"jeom", "su", " ", "hwag", "xin">>,   \* 점수 확인
       <<"nae", " ", "seong", "jeog">>,   \* 내 성적
       <<"seong", "jeog", " ", "bo", "xyeo", "jwo">>,   \* 성적 보여줘
       <<"nae", " ", "gi", "rog", " ", "bo", "xyeo", "jwo">>,   \* 내 기록 보여줘
       <<"jeom", "su", " ", "chang">>    \* 점수 창
     >>],
    [action |-> <<"S", "H", "O", "W", "_", "D", "A", "S", "H", "B", "O", "A", "R", "D">>,
     keywords |-> <<
       <<"dae", "si", "bo", "deu">>,   \* 대시보드
       <<"xin", "ji", " ", "bun", "seog">>,   \* 인지 분석
       <<"du", "noe", " ", "geon", "gang">>,   \* 두뇌 건강
       <<"bun", "seog", " ", "bo", "xyeo", "jwo">>,   \* 분석 보여줘
       <<"xin", "ji", " ", "jeom", "su">>,   \* 인지 점수
       <<"du", "noe", " ", "bun", "seog">>,   \* 두뇌 분석
       <<"geon", "gang", " ", "bun", "seog">>,   \* 건강 분석
       <<"xin", "ji", " ", "neung", "ryeog">>,   \* 인지 능력
       <<"noe", " ", "geon", "gang">>    \* 뇌 건강
     >>],
    [action |-> <<"S", "H", "O", "W", "_", "R", "A", "N", "K", "I", "N", "G">>,
     keywords |-> <<
       <<"raeng", "king">>,   \* 랭킹
       <<"sun", "xwi">>,   \* 순위
       <<"1", "deung">>,   \* 1등
       <<"xil", "deung">>,   \* 일등
       <<"raeng", "king", " ", "bo", "xyeo", "jwo">>,   \* 랭킹 보여줘
       <<"sun", "xwi", " ", "bo", "xyeo", "jwo">>,   \* 순위 보여줘
       <<"nu", "ga", " ", "1", "deung">>,   \* 누가 1등
       <<"jeon", "che", " ", "sun", "xwi">>,   \* 전체 순위
       <<"raeng", "king", " ", "chang">>,   \* 랭킹 창
       <<"deung", "su">>    \* 등수
     >>],
    [action |-> <<"C", "L", "O", "S", "E", "_", "M", "O", "D", "A", "L">>,
     keywords |-> <<
       <<"dad", "xa">>,   \* 닫아
       <<"dad", "gi">>,   \* 닫기
       <<"na", "ga">>,   \* 나가
       <<"na", "ga", "gi">>,   \* 나가기
       <<"dwi", "ro">>,   \* 뒤로
       <<"dwi", "ro", "ga", "gi">>,   \* 뒤로가기
       <<"chang", " ", "dad", "xa">>,   \* 창 닫아
       <<"geu", "man">>,   \* 그만
       <<"kkeut">>,   \* 끝
       <<"jong", "ryo">>,   \* 종료
       <<"chwi", "so">>,   \* 취소
       <<"dol", "xa", "ga">>    \* 돌아가
     >>],
    [action |-> <<"S", "A", "V", "E", "_", "S", "C", "O", "R", "E">>,
     keywords |-> <<
       <<"jeo", "jang">>,   \* 저장
       <<"jeo", "jang", "hae">>,   \* 저장해
       <<"jeo", "jang", "hae", "jwo">>,   \* 저장해줘
       <<"gi", "rog", " ", "jeo", "jang">>,   \* 기록 저장
       <<"jeom", "su", " ", "jeo", "jang">>,   \* 점수 저장
       <<"se", "xi", "beu">>,   \* 세이브
       <<"jeo", "jang", "ha", "ja">>,   \* 저장하자
       <<"jeo", "jang", " ", "hae", "jwo">>    \* 저장 해줘
     >>]
  >>

INFO_REQUEST ==
  <<
    <<"jeom", "su", " ", "xal", "ryeo", "jwo">>,   \* 점수 알려줘
    <<"xo", "neul", " ", "myeoch", "jeom">>,   \* 오늘 몇점
    <<"choe", "go", " ", "jeom", "su">>,   \* 최고 점수
    <<"pyeong", "gyun", " ", "jeom", "su">>,   \* 평균 점수
    <<"myeoch", "beon", " ", "haess", "xeo">>,   \* 몇번 했어
    <<"myeo", "chil", "jjae">>,   \* 며칠째
    <<"seol", "myeong", "hae", "jwo">>,   \* 설명해줘
    <<"xeo", "tteoh", "ge", " ", "hae">>,   \* 어떻게 해
    <<"bang", "beob", " ", "xal", "ryeo", "jwo">>,   \* 방법 알려줘
    <<"gyu", "chig", "xi", " ", "mwo", "xya">>,   \* 규칙이 뭐야
    <<"xeo", "tteoh", "ge", " ", "ha", "neun", " ", "geo", "xya">>    \* 어떻게 하는 거야
  >>

VOICE_COMMAND_PATTERNS ==
  [GAME_START |-> GAME_START, UI_CONTROL |-> UI_CONTROL, INFO_REQUEST |-> INFO_REQUEST]

GAME_ACTION_KEYWORDS ==
  <<
    <<"si", "jag">>,   \* 시작
    <<"ha", "ja">>,   \* 하자
    <<"hae", "jwo">>,   \* 해줘
    <<"hae">>,   \* 해
    <<"hal", "rae">>,   \* 할래
    <<"ha", "go", " ", "sip", "xeo">>,   \* 하고 싶어
    <<"hae", "bol", "rae">>,   \* 해볼래
    <<"ha", "go", "sip", "xeo">>,   \* 하고싶어
    <<"sil", "haeng">>,   \* 실행
    <<"xyeol", "xeo">>,   \* 열어
    <<"kyeo", "jwo">>,   \* 켜줘
    <<"kyeo">>,   \* 켜
    <<"peul", "re", "xi">>,   \* 플레이
    <<"ge", "xim">>,   \* 게임
    <<"go">>,   \* 고
    <<"g", "o">>,   \* go
    <<"hae", "bo", "ja">>,   \* 해보자
    <<"xyeol", "xeo", "jwo">>,   \* 열어줘
    <<"si", "jag", "hae">>,   \* 시작해
    <<"si", "jag", "hae", "jwo">>,   \* 시작해줘
    <<"hae", "bwa">>,   \* 해봐
    <<"hae", " ", "bwa">>,   \* 해 봐
    <<"si", "jag", "ha", "ja">>    \* 시작하자
  >>

(***************************************************************************)
(* String primitives of the JavaScript runtime used by the classifier.     *)
(***************************************************************************)
UpperCaseLetters ==
  <<"A", "B", "C", "D", "E", "F", "G", "H", "I", "J", "K", "L", "M",
    "N", "O", "P", "Q", "R", "S", "T", "U", "V", "W", "X", "Y", "Z">>

LowerCaseLetters ==
  <<"a", "b", "c", "d", "e", "f", "g", "h", "i", "j", "k", "l", "m",
    "n", "o", "p", "q", "r", "s", "t", "u", "v", "w", "x", "y", "z">>

\* String.prototype.toLowerCase: Latin capitals map to their small letter,
\* every other character (Hangul, digits, blanks) is left as it is.
toLowerCase(s) ==
  [i \in 1..Len(s) |->
     IF \E n \in 1..26 : UpperCaseLetters[n] = s[i]
       THEN LowerCaseLetters[CHOOSE n \in 1..26 : UpperCaseLetters[n] = s[i]]
       ELSE s[i]]

\* String.prototype.toUpperCase
toUpperCase(s) ==
  [i \in 1..Len(s) |->
     IF \E n \in 1..26 : LowerCaseLetters[n] = s[i]
       THEN UpperCaseLetters[CHOOSE n \in 1..26 : LowerCaseLetters[n] = s[i]]
       ELSE s[i]]

\* The character class \s of a regular expression.
IsWhitespace(c) == c \in {" ", "\t", "\n", "\r"}

RECURSIVE SkipWhitespace(_)
SkipWhitespace(s) ==
  IF s # <<>> /\ IsWhitespace(Head(s)) THEN SkipWhitespace(Tail(s)) ELSE s

\* Mutant: runs of blanks are kept as they are.
CollapseWhitespace_KeepRuns(s) == s

\* replace(/\s+/g, ' '): every maximal run of blanks becomes one space.
RECURSIVE CollapseWhitespace(_)
CollapseWhitespace(s) ==
  IF s = <<>> THEN <<>>
  ELSE IF IsWhitespace(Head(s))
         THEN <<" ">> \o CollapseWhitespace(SkipWhitespace(s))
         ELSE <<Head(s)>> \o CollapseWhitespace(Tail(s))

RECURSIVE TrimEnd(_)
TrimEnd(s) ==
  IF s # <<>> /\ IsWhitespace(s[Len(s)]) THEN TrimEnd(SubSeq(s, 1, Len(s) - 1)) ELSE s

\* String.prototype.trim
trim(s) == TrimEnd(SkipWhitespace(s))

\* String.prototype.includes: keyword occurs in text as a substring.
includes(text, keyword) ==
  \E i \in 0..(Len(text) - Len(keyword)) :
     \A j \in 1..Len(keyword) : text[i + j] = keyword[j]

\* const normalizedText = transcript.toLowerCase().replace(/\s+/g, ' ').trim()
normalizedText(transcript) == trim(CollapseWhitespace(toLowerCase(transcript)))

(***************************************************************************)
(* analyzeVoiceIntent.  A VoiceIntent is a record; an optional property    *)
(* that is not set is absent from the record's domain.  Confidence is in   *)
(* hundredths (0.95 is 95).                                                 *)
(***************************************************************************)
NoMatch == [type |-> "NONE"]

START_GAME_ == <<"S", "T", "A", "R", "T", "_", "G", "A", "M", "E", "_">>

\* GAME_ACTION_KEYWORDS.some(action => normalizedText.includes(action))
hasActionWord(text) ==
  \E n \in 1..Len(GAME_ACTION_KEYWORDS) : includes(text, GAME_ACTION_KEYWORDS[n])

\* Mutant: the length test is off by one.
isShortKeyword_OffByOne(keyword) == Len(keyword) < 2

\* keyword.length <= 2
isShortKeyword(keyword) == Len(keyword) <= 2

\* keyword.includes('게임') || keyword.includes('시작')
isExplicitGameKeyword(keyword) ==
  includes(keyword, <<"ge", "xim">>) \/ includes(keyword, <<"si", "jag">>)

\* Mutant: the slice is forgotten, any phrase of the category counts.
FirstThree_NoSlice(keywords) == keywords

\* keywords.slice(0, 3)
FirstThree(keywords) == SubSeq(keywords, 1, IF Len(keywords) < 3 THEN Len(keywords) ELSE 3)

\* keywords.slice(0, 3).some(k => normalizedText.includes(k))
containsLeadingKeyword(text, keywords) ==
  \E n \in 1..Len(FirstThree(keywords)) : includes(text, FirstThree(keywords)[n])

\* Mutant: a contained trigger phrase is accepted without further condition.
acceptsGameStart_AnyMatch(text, keyword, keywords) == TRUE

\* The condition of the if statement inside the GAME_START loops.
acceptsGameStart(text, keyword, keywords) ==
  \/ hasActionWord(text)
  \/ isExplicitGameKeyword(keyword)
  \/ (~isShortKeyword(keyword) /\ containsLeadingKeyword(text, keywords))

\* Mutant: the confidence does not depend on the action word.
GameStartIntent_FixedConfidence(text, game) ==
  [type |-> "GAME_START",
   action |-> START_GAME_ \o toUpperCase(game),
   game |-> game,
   confidence |-> 85]

\* Mutant: the game id is not upper-cased in the action.
GameStartIntent_NoUpperCase(text, game) ==
  [type |-> "GAME_START",
   action |-> START_GAME_ \o game,
   game |-> game,
   confidence |-> IF hasActionWord(text) THEN 95 ELSE 85]

\* The GAME_START return value.
GameStartIntent(text, game) ==
  [type |-> "GAME_START",
   action |-> START_GAME_ \o toUpperCase(game),
   game |-> game,
   confidence |-> IF hasActionWord(text) THEN 95 ELSE 85]

\* Loop 1: categories of UI_CONTROL in order, keywords in order, the first
\* keyword contained in the text returns.
RECURSIVE UIControlScan(_, _, _)
UIControlScan(text, a, k) ==
  IF a > Len(VOICE_COMMAND_PATTERNS.UI_CONTROL) THEN NoMatch
  ELSE IF k > Len(VOICE_COMMAND_PATTERNS.UI_CONTROL[a].keywords)
         THEN UIControlScan(text, a + 1, 1)
  ELSE IF includes(text, VOICE_COMMAND_PATTERNS.UI_CONTROL[a].keywords[k])
         THEN [type |-> "UI_CONTROL",
               action |-> VOICE_COMMAND_PATTERNS.UI_CONTROL[a].action,
               confidence |-> 95]
  ELSE UIControlScan(text, a, k + 1)

\* Loop 2: categories of GAME_START in order, keywords in order, the first
\* contained keyword that passes the acceptance condition returns.
RECURSIVE GameStartScan(_, _, _)
GameStartScan(text, g, k) ==
  IF g > Len(VOICE_COMMAND_PATTERNS.GAME_START) THEN NoMatch
  ELSE IF k > Len(VOICE_COMMAND_PATTERNS.GAME_START[g].keywords)
         THEN GameStartScan(text, g + 1, 1)
  ELSE IF /\ includes(text, VOICE_COMMAND_PATTERNS.GAME_START[g].keywords[k])
          /\ acceptsGameStart(text, VOICE_COMMAND_PATTERNS.GAME_START[g].keywords[k],
                              VOICE_COMMAND_PATTERNS.GAME_START[g].keywords)
         THEN GameStartIntent(text, VOICE_COMMAND_PATTERNS.GAME_START[g].game)
  ELSE GameStartScan(text, g, k + 1)

\* Loop 3: the flat INFO_REQUEST list.
RECURSIVE InfoRequestScan(_, _)
InfoRequestScan(text, k) ==
  IF k > Len(VOICE_COMMAND_PATTERNS.INFO_REQUEST) THEN NoMatch
  ELSE IF includes(text, VOICE_COMMAND_PATTERNS.INFO_REQUEST[k])
         THEN [type |-> "INFO_REQUEST", confidence |-> 85]
  ELSE InfoRequestScan(text, k + 1)

\* Mutant: GAME_START is checked before UI_CONTROL.
ClassifyNormalized_GameFirst(text) ==
  IF GameStartScan(text, 1, 1).type # "NONE" THEN GameStartScan(text, 1, 1)
  ELSE IF UIControlScan(text, 1, 1).type # "NONE" THEN UIControlScan(text, 1, 1)
  ELSE IF InfoRequestScan(text, 1).type # "NONE" THEN InfoRequestScan(text, 1)
  ELSE [type |-> "GENERAL_CHAT", confidence |-> 70]

\* Mutant: INFO_REQUEST is checked before GAME_START.
ClassifyNormalized_InfoFirst(text) ==
  IF UIControlScan(text, 1, 1).type # "NONE" THEN UIControlScan(text, 1, 1)
  ELSE IF InfoRequestScan(text, 1).type # "NONE" THEN InfoRequestScan(text, 1)
  ELSE IF GameStartScan(text, 1, 1).type # "NONE" THEN GameStartScan(text, 1, 1)
  ELSE [type |-> "GENERAL_CHAT", confidence |-> 70]

\* The three checks in the order of the function body, then the default.
ClassifyNormalized(text) ==
  IF UIControlScan(text, 1, 1).type # "NONE" THEN UIControlScan(text, 1, 1)
  ELSE IF GameStartScan(text, 1, 1).type # "NONE" THEN GameStartScan(text, 1, 1)
  ELSE IF InfoRequestScan(text, 1).type # "NONE" THEN InfoRequestScan(text, 1)
  ELSE [type |-> "GENERAL_CHAT", confidence |-> 70]

analyzeVoiceIntent(transcript) == ClassifyNormalized(normalizedText(transcript))

(***************************************************************************)
(* Inputs of the classifier: every transcript is a concatenation of at     *)
(* most MaxPieces utterance pieces.  The pieces are trigger phrases of     *)
(* every table, action words, words of no table, capitals and blanks.      *)
(***************************************************************************)
MaxPieces == 2

Pieces ==
  {
    <<"raeng", "king">>,   \* 랭킹
    <<"nae", " ", "gi", "rog">>,   \* 내 기록
    <<"jeo", "jang">>,   \* 저장
    <<"hwa", "tu", " ", "si", "jag">>,   \* 화투 시작
    <<"jjag", "maj", "chu", "gi">>,   \* 짝맞추기
    <<"sus", "ja">>,   \* 숫자
    <<"saeg", "kkal", " ", "gi", "xeog">>,   \* 색깔 기억
    <<"beon", "ho", " ", "gi", "xeog">>,   \* 번호 기억
    <<"geu", "rim", " ", "maj", "chu", "gi">>,   \* 그림 맞추기
    <<"geu", "rim", " ", "sun", "seo">>,   \* 그림 순서
    <<"hae", "jwo">>,   \* 해줘
    <<"G", "O">>,   \* GO
    <<"ge", "xim">>,   \* 게임
    <<"seol", "myeong", "hae", "jwo">>,   \* 설명해줘
    <<"xo", "neul", " ", "myeoch", "jeom">>,   \* 오늘 몇점
    <<"choe", "go", " ", "jeom", "su">>,   \* 최고 점수
    <<"xan", "nyeong">>,   \* 안녕
    <<" ">>,   \* <space>
    <<"\t", " ">>    \* <tab><space>
  }

RECURSIVE Concatenations(_)
Concatenations(n) ==
  IF n = 0 THEN {<<>>}
  ELSE Concatenations(n - 1) \cup {p \o q : p \in Pieces, q \in Concatenations(n - 1)}

Transcripts == Concatenations(MaxPieces)

NoIntent == [type |-> "NOT_ANALYZED"]

VARIABLES
  transcript,   \* the argument of analyzeVoiceIntent
  intent        \* its return value, NoIntent before the call

ivars == <<transcript, intent>>

(***************************************************************************)
(* The component InteractiveAvatar (voice-command variant): its texts.     *)
(***************************************************************************)
GAME_NAMES ==
  <<
    [game |-> <<"h", "w", "a", "t", "u">>,
     name |-> <<"hwa", "tu", " ", "jjag", "maj", "chu", "gi">>],   \* 화투 짝맞추기
    [game |-> <<"p", "a", "t", "t", "e", "r", "n">>,
     name |-> <<"saeg", "sang", " ", "pae", "teon", " ", "gi", "xeog">>],   \* 색상 패턴 기억
    [game |-> <<"m", "e", "m", "o", "r", "y">>,
     name |-> <<"sus", "ja", " ", "gi", "xeog", "ha", "gi">>],   \* 숫자 기억하기
    [game |-> <<"p", "r", "o", "v", "e", "r", "b">>,
     name |-> <<"sog", "dam", " ", "xwan", "seong", "ha", "gi">>],   \* 속담 완성하기
    [game |-> <<"c", "a", "l", "c">>,
     name |-> <<"san", "su", " ", "gye", "san">>],   \* 산수 계산
    [game |-> <<"s", "e", "q", "u", "e", "n", "c", "e">>,
     name |-> <<"sun", "seo", " ", "maj", "chu", "gi">>]   \* 순서 맞추기
  >>

UI_RESPONSES ==
  <<
    \* 네, 기록을 보여드릴게요.
    [action |-> <<"S", "H", "O", "W", "_", "M", "Y", "_", "R", "E", "C", "O", "R", "D", "S">>,
     response |->
       <<"ne", ",", " ", "gi", "rog", "xeul", " ", "bo", "xyeo", "deu",
         "ril", "ge", "xyo", ".">>],
    \* 인지 분석 대시보드를 열어드릴게요.
    [action |-> <<"S", "H", "O", "W", "_", "D", "A", "S", "H", "B", "O", "A", "R", "D">>,
     response |->
       <<"xin", "ji", " ", "bun", "seog", " ", "dae", "si", "bo", "deu",
         "reul", " ", "xyeol", "xeo", "deu", "ril", "ge", "xyo", ".">>],
    \* 전체 랭킹을 보여드릴게요.
    [action |-> <<"S", "H", "O", "W", "_", "R", "A", "N", "K", "I", "N", "G">>,
     response |->
       <<"jeon", "che", " ", "raeng", "king", "xeul", " ", "bo", "xyeo",
         "deu", "ril", "ge", "xyo", ".">>],
    \* 네, 창을 닫을게요.
    [action |-> <<"C", "L", "O", "S", "E", "_", "M", "O", "D", "A", "L">>,
     response |->
       <<"ne", ",", " ", "chang", "xeul", " ", "dad", "xeul", "ge", "xyo",
         ".">>],
    \* 점수를 저장할게요.
    [action |-> <<"S", "A", "V", "E", "_", "S", "C", "O", "R", "E">>,
     response |->
       <<"jeom", "su", "reul", " ", "jeo", "jang", "hal", "ge", "xyo", ".">>]
  >>

\* 네! 
GameResponsePrefix ==
  <<"ne", "!", " ">>

\*  게임을 시작할게요. 화이팅!
GameResponseSuffix ==
  <<" ", "ge", "xim", "xeul", " ", "si", "jag", "hal", "ge", "xyo", ".",
    " ", "hwa", "xi", "ting", "!">>

\* 알겠습니다.
DefaultUIResponse ==
  <<"xal", "gess", "seub", "ni", "da", ".">>

\* 응답을 생성할 수 없습니다.
NoReplyText ==
  <<"xeung", "dab", "xeul", " ", "saeng", "seong", "hal", " ", "su", " ",
    "xeobs", "seub", "ni", "da", ".">>

\* 죄송합니다. 오류가 발생했습니다.
ChatErrorText ==
  <<"joe", "song", "hab", "ni", "da", ".", " ", "xo", "ryu", "ga", " ",
    "bal", "saeng", "haess", "seub", "ni", "da", ".">>

\* 안녕하세요! 저는 두뇌 건강 도우미예요. '산수 계산 게임 실행'이나 '내 점수 보여줘'처럼 말씀해 주세요!
DefaultGreeting ==
  <<"xan", "nyeong", "ha", "se", "xyo", "!", " ", "jeo", "neun", " ", "du",
    "noe", " ", "geon", "gang", " ", "do", "xu", "mi", "xye", "xyo", ".",
    " ", "'", "san", "su", " ", "gye", "san", " ", "ge", "xim", " ", "sil",
    "haeng", "'", "xi", "na", " ", "'", "nae", " ", "jeom", "su", " ",
    "bo", "xyeo", "jwo", "'", "cheo", "reom", " ", "mal", "sseum", "hae",
    " ", "ju", "se", "xyo", "!">>

\* GAME_NAMES[intent.game] || intent.game
GameName(game) ==
  IF \E n \in DOMAIN GAME_NAMES : GAME_NAMES[n].game = game
    THEN GAME_NAMES[CHOOSE n \in DOMAIN GAME_NAMES : GAME_NAMES[n].game = game].name
    ELSE game

\* const gameResponse = the template around gameName
gameResponse(game) == GameResponsePrefix \o GameName(game) \o GameResponseSuffix

\* const uiResponse = UI_RESPONSES[intent.action] || DefaultUIResponse
uiResponse(action) ==
  IF \E n \in DOMAIN UI_RESPONSES : UI_RESPONSES[n].action = action
    THEN UI_RESPONSES[CHOOSE n \in DOMAIN UI_RESPONSES : UI_RESPONSES[n].action = action].response
    ELSE DefaultUIResponse

\* A non-empty reply field of the answer of the chat endpoint.
ServerReply == <<"r", "e", "p", "l", "y">>

\* callChatAPI's return value for the three ways the request can end.
ChatOutcomes == {"reply", "empty", "error"}

\* Mutant: a failed request yields no text at all.
callChatAPIResult_NoApology(outcome) ==
  CASE outcome = "reply" -> ServerReply
    [] outcome = "empty" -> NoReplyText
    [] OTHER -> <<>>

callChatAPIResult(outcome) ==
  CASE outcome = "reply" -> ServerReply
    [] outcome = "empty" -> NoReplyText
    [] OTHER -> ChatErrorText

ChatMessage(role, content) == [role |-> role, content |-> content]

(***************************************************************************)
(* Inputs of the component: what the user says or types.                   *)
(***************************************************************************)
Utterances ==
  {
    <<"raeng", "king">>,                         \* 랭킹       UI_CONTROL
    <<"hwa", "tu", " ", "si", "jag">>,           \* 화투 시작  GAME_START
    <<"xan", "nyeong">>,                         \* 안녕       GENERAL_CHAT
    <<" ">>                                      \* blank
  }

\* A wider choice of inputs, for the dispatcher within one session.
DispatcherUtterances ==
  Utterances \cup
  {
    <<"xo", "neul", " ", "myeoch", "jeom">>      \* 오늘 몇점  INFO_REQUEST
  }

MaxDispatches == 2   \* transcripts that pass the guards of handleUserSpeech
MaxSessions == 2     \* startSession calls that pass the hasStartedRef guard
MaxCalls == 2        \* asynchronous invocations in flight at once
MaxQueued == 1       \* utterances the avatar service holds before playing them
MaxTimers == 1       \* pending timers of one kind
MaxSpeakErrors == 1  \* failures of the avatar's speak()

VARIABLES
  isLoading,            \* useState(false)
  chatHistory,          \* useState<ChatMessage[]>([])
  isAvatarSpeaking,     \* useState(false)
  isProcessingRef,      \* useRef(false)
  hasGreetedRef,        \* useRef(false)
  hasStartedRef,        \* useRef(false)
  userNameRef,          \* useRef("")
  webSpeechRef,         \* useRef<WebSpeechRecognizer | null>(null)
  isAvatarSpeakingRef,  \* useRef(false)
  avatarRef,            \* useStreamingAvatarSession: avatarRef.current is set
  sessionState,         \* useStreamingAvatarSession: sessionState
  queued,               \* utterances accepted by speak() and not yet playing
  talking,              \* AVATAR_START_TALKING signals without their STOP
  calls,                \* the asynchronous invocations in flight
  startTimers,          \* pending setTimeout(() => webSpeechRef.current?.start())
  resumeTimers,         \* AVATAR_STOP_TALKING handlers waiting to resume
  voiceCommands,        \* VOICE_COMMAND messages posted to the parent window
  chatRequests,         \* bodies of the 'chat' requests sent to /api/chat
  sessions,             \* startSession calls that passed the guard so far
  speakErrors           \* console.error("Avatar speak error:") calls so far

svars ==
  <<isLoading, chatHistory, isAvatarSpeaking, isProcessingRef, hasGreetedRef,
    hasStartedRef, userNameRef, webSpeechRef, isAvatarSpeakingRef, avatarRef,
    sessionState, queued, talking, calls, startTimers, resumeTimers,
    voiceCommands, chatRequests, sessions, speakErrors>>

\* The component of the auto-start variant (function InteractiveAvatar with
\* startSessionV2) has the session state of the same hook and, of its own:
VARIABLES
  isAutoStarted,    \* useState(false)
  autoStartEffect,  \* the last run of the auto-start effect: the dependencies
                    \* it ran with and the timer it set
  autoStarts        \* startSessionV2(true) calls made by the timer so far

avars == <<isAutoStarted, autoStartEffect, autoStarts>>

\* The component of the OpenAI-chat variant (the second function
\* InteractiveAvatar of InteractiveAvatar.tsx) has isLoading, chatHistory,
\* isProcessingRef and the session hook as above and, of the avatar it starts:
VARIABLES
  voiceChatStarted  \* avatarInstance.startVoiceChat() has resolved

ovars == <<voiceChatStarted>>

\* The microphone of the first component: the interim display, and who
\* paused the recognizer.
VARIABLES
  interimTranscript,  \* useState("")
  userPaused          \* history: the last toggleMicrophone paused the recognizer

mvars == <<interimTranscript, userPaused>>

vars == <<ivars, svars, avars, ovars, mvars>>

(***************************************************************************)
(* WebSpeechRecognizer (app/lib/webSpeechAPI).  hist is the chatHistory of *)
(* the render whose handleUserSpeech the onResult callback closed over.    *)
(***************************************************************************)
NoRecognizer == [exists |-> FALSE, started |-> FALSE, paused |-> FALSE, hist |-> <<>>]

NewRecognizer(hist) == [exists |-> TRUE, started |-> FALSE, paused |-> FALSE, hist |-> hist]

\* webSpeechRef.current?.pause()
pause(ws) == IF ws.exists THEN [ws EXCEPT !.paused = TRUE] ELSE ws

\* webSpeechRef.current?.resume()
resume(ws) == IF ws.exists THEN [ws EXCEPT !.paused = FALSE] ELSE ws

\* webSpeechRef.current?.start()
start(ws) == IF ws.exists THEN [ws EXCEPT !.started = TRUE] ELSE ws

\* initWebSpeech of the render with this chatHistory
initWebSpeech(ws, hist) == IF ws.exists THEN ws ELSE NewRecognizer(hist)

(***************************************************************************)
(* Asynchronous invocations.  pc names the await the invocation is at.     *)
(***************************************************************************)
Call(kind, pc, text, hist, then) ==
  [kind |-> kind, pc |-> pc, text |-> text, hist |-> hist, then |-> then]

Remove(s, i) == SubSeq(s, 1, i - 1) \o SubSeq(s, i + 1, Len(s))

Dispatched == Len(voiceCommands) + Len(chatRequests)

InitComponent ==
  /\ isLoading = FALSE
  /\ chatHistory = <<>>
  /\ isAvatarSpeaking = FALSE
  /\ isProcessingRef = FALSE
  /\ hasGreetedRef = FALSE
  /\ hasStartedRef = FALSE
  /\ userNameRef = <<>>
  /\ webSpeechRef = NoRecognizer
  /\ isAvatarSpeakingRef = FALSE
  /\ avatarRef = FALSE
  /\ sessionState = "inactive"
  /\ queued = 0
  /\ talking = 0
  /\ calls = <<>>
  /\ startTimers = 0
  /\ resumeTimers = 0
  /\ voiceCommands = <<>>
  /\ chatRequests = <<>>
  /\ sessions = 0
  /\ speakErrors = 0

(***************************************************************************)
(* The classifier on its own: one call of analyzeVoiceIntent on a          *)
(* transcript, in a component that stays as constructed.                   *)
(***************************************************************************)
\* The auto-start effect has not run yet.
NotRun == [ran |-> FALSE, isAutoStarted |-> FALSE, sessionState |-> "inactive", timer |-> "none"]

InitAutoStart ==
  /\ isAutoStarted = FALSE
  /\ autoStartEffect = NotRun
  /\ autoStarts = 0

InitOpenAI == voiceChatStarted = FALSE

InitMicrophone == interimTranscript = <<>> /\ userPaused = FALSE

InitIntent ==
  /\ transcript \in Transcripts
  /\ intent = NoIntent
  /\ InitComponent
  /\ InitAutoStart
  /\ InitOpenAI
  /\ InitMicrophone

\* One call of analyzeVoiceIntent(transcript).
Analyze ==
  /\ intent = NoIntent
  /\ intent' = analyzeVoiceIntent(transcript)
  /\ UNCHANGED <<transcript, svars, avars, ovars, mvars>>

NextIntent == Analyze

SpecIntent == InitIntent /\ [][NextIntent]_vars

(***************************************************************************)
(* speakWithAvatar.                                                        *)
(***************************************************************************)
\* if (!avatarRef.current || !text) return;
speakProceeds(text) == avatarRef /\ text # <<>>

\* The statements up to the first await: the flag is set and the recognizer
\* paused.  Without avatar or text the call returns at once.
speakWithAvatarEntry(text) ==
  IF speakProceeds(text)
    THEN /\ isAvatarSpeakingRef' = TRUE
         /\ isAvatarSpeaking' = TRUE
         /\ webSpeechRef' = pause(webSpeechRef)
    ELSE UNCHANGED <<isAvatarSpeakingRef, isAvatarSpeaking, webSpeechRef>>

\* Mutant: the catch block leaves the recognizer paused.
speakWithAvatarCatch_NoResume ==
  /\ isAvatarSpeakingRef' = FALSE
  /\ isAvatarSpeaking' = FALSE
  /\ UNCHANGED webSpeechRef

\* The catch block of speakWithAvatar.
speakWithAvatarCatch ==
  /\ isAvatarSpeakingRef' = FALSE
  /\ isAvatarSpeaking' = FALSE
  /\ webSpeechRef' = resume(webSpeechRef)

\* Mutant: interrupt() is left out, speak() is called when the wait is over.
SpeakDelayFires_NoInterrupt(i) ==
  /\ calls[i].pc = "delay"
  /\ calls' = [calls EXCEPT ![i].pc = "speak"]
  /\ UNCHANGED <<isLoading, chatHistory, isAvatarSpeaking, isProcessingRef, hasGreetedRef,
                 hasStartedRef, userNameRef, webSpeechRef, isAvatarSpeakingRef, avatarRef,
                 sessionState, queued, talking, startTimers, resumeTimers,
                 voiceCommands, chatRequests, sessions, speakErrors>>
  /\ UNCHANGED <<ivars, avars, ovars, mvars>>

\* await new Promise((r) => setTimeout(r, 300)) is over: interrupt() is called.
SpeakDelayFires(i) ==
  /\ calls[i].pc = "delay"
  /\ calls' = [calls EXCEPT ![i].pc = "interrupt"]
  /\ UNCHANGED <<isLoading, chatHistory, isAvatarSpeaking, isProcessingRef, hasGreetedRef,
                 hasStartedRef, userNameRef, webSpeechRef, isAvatarSpeakingRef, avatarRef,
                 sessionState, queued, talking, startTimers, resumeTimers,
                 voiceCommands, chatRequests, sessions, speakErrors>>
  /\ UNCHANGED <<ivars, avars, ovars, mvars>>

\* avatarRef.current.interrupt() settles; a rejection is ignored.  speak() is
\* called next.  An interrupt that succeeds drops the utterances not yet
\* playing; the one playing ends with its AVATAR_STOP_TALKING.
InterruptReturns(i, ok) ==
  /\ calls[i].pc = "interrupt"
  /\ ok => sessionState = "connected"
  /\ queued' = IF ok THEN 0 ELSE queued
  /\ calls' = [calls EXCEPT ![i].pc = "speak"]
  /\ UNCHANGED <<isLoading, chatHistory, isAvatarSpeaking, isProcessingRef, hasGreetedRef,
                 hasStartedRef, userNameRef, webSpeechRef, isAvatarSpeakingRef, avatarRef,
                 sessionState, talking, startTimers, resumeTimers,
                 voiceCommands, chatRequests, sessions, speakErrors>>
  /\ UNCHANGED <<ivars, avars, ovars, mvars>>

\* Mutant: handleUserSpeech has no finally block.
AfterSpeak_NoFinally(c) ==
  /\ UNCHANGED <<isLoading, isProcessingRef>>
  /\ chatHistory' = IF c.kind = "STREAM_READY"
                      THEN <<ChatMessage("assistant", c.text)>>
                      ELSE chatHistory
  /\ hasGreetedRef' = IF c.kind = "STREAM_READY" THEN TRUE ELSE hasGreetedRef

\* What the caller does once speakWithAvatar has returned.
\*   handleUserSpeech: the finally block.
\*   STREAM_READY handler: setChatHistory([greeting]); hasGreetedRef = true.
AfterSpeak(c) ==
  /\ isLoading' = IF c.kind = "handleUserSpeech" THEN FALSE ELSE isLoading
  /\ isProcessingRef' = IF c.kind = "handleUserSpeech" THEN FALSE ELSE isProcessingRef
  /\ chatHistory' = IF c.kind = "STREAM_READY"
                      THEN <<ChatMessage("assistant", c.text)>>
                      ELSE chatHistory
  /\ hasGreetedRef' = IF c.kind = "STREAM_READY" THEN TRUE ELSE hasGreetedRef

\* avatarRef.current.speak() settles.  Success hands the utterance to the
\* avatar service; failure runs the catch block.  speakWithAvatar returns
\* normally in both cases and the caller goes on.
SpeakReturns(i, ok) ==
  /\ calls[i].pc = "speak"
  /\ IF ok
       THEN /\ sessionState = "connected"
            /\ queued < MaxQueued
            /\ queued' = queued + 1
            /\ UNCHANGED <<isAvatarSpeakingRef, isAvatarSpeaking, webSpeechRef, speakErrors>>
       ELSE /\ speakErrors < MaxSpeakErrors
            /\ speakErrors' = speakErrors + 1
            /\ speakWithAvatarCatch
            /\ UNCHANGED queued
  /\ AfterSpeak(calls[i])
  /\ calls' = Remove(calls, i)
  /\ UNCHANGED <<hasStartedRef, userNameRef, avatarRef, sessionState, talking,
                 startTimers, resumeTimers, voiceCommands, chatRequests, sessions>>
  /\ UNCHANGED <<ivars, avars, ovars, mvars>>

(***************************************************************************)
(* handleUserSpeech.                                                       *)
(***************************************************************************)
\* Mutant: every command is acknowledged with the generic text.
CommandResponse_Generic(r) == DefaultUIResponse

\* The response spoken for a GAME_START or UI_CONTROL intent.
CommandResponse(r) ==
  IF r.type = "GAME_START" THEN gameResponse(r.game) ELSE uiResponse(r.action)

\* Mutant: the game is left out of the message.
VoiceCommand_NoGame(r) == [type |-> "VOICE_COMMAND", action |-> r.action]

\* sendVoiceCommand(action, game): the message posted to window.parent.
VoiceCommand(r) ==
  IF r.type = "GAME_START"
    THEN [type |-> "VOICE_COMMAND", action |-> r.action, game |-> r.game]
    ELSE [type |-> "VOICE_COMMAND", action |-> r.action]

\* The guards at the top of handleUserSpeech.
passesGuards(t) == ~isAvatarSpeakingRef /\ trim(t) # <<>> /\ ~isProcessingRef

\* handleUserSpeech(t) of the render whose chatHistory is hist, up to its first
\* await.  A transcript the guards reject changes nothing.
handleUserSpeech(t, hist) ==
  IF ~passesGuards(t)
    THEN UNCHANGED svars
    ELSE
      /\ Dispatched < MaxDispatches
      /\ IF analyzeVoiceIntent(t).type \in {"GAME_START", "UI_CONTROL"}
           THEN \* sendVoiceCommand, setChatHistory, await speakWithAvatar
             /\ voiceCommands' = Append(voiceCommands, VoiceCommand(analyzeVoiceIntent(t)))
             /\ chatHistory' =
                  chatHistory \o
                    <<ChatMessage("user", t),
                      ChatMessage("assistant", CommandResponse(analyzeVoiceIntent(t)))>>
             /\ speakWithAvatarEntry(CommandResponse(analyzeVoiceIntent(t)))
             /\ IF speakProceeds(CommandResponse(analyzeVoiceIntent(t)))
                  THEN /\ Len(calls) < MaxCalls
                       /\ calls' = Append(calls,
                            Call("handleUserSpeech", "delay",
                                 CommandResponse(analyzeVoiceIntent(t)), <<>>, "none"))
                       /\ isProcessingRef' = TRUE
                       /\ isLoading' = TRUE
                  ELSE /\ isProcessingRef' = FALSE
                       /\ isLoading' = FALSE
                       /\ UNCHANGED calls
             /\ UNCHANGED chatRequests
           ELSE \* setChatHistory, await callChatAPI('chat', {message, history})
             /\ Len(calls) < MaxCalls
             /\ chatHistory' = Append(chatHistory, ChatMessage("user", t))
             /\ chatRequests' = Append(chatRequests,
                                  [type |-> "chat", message |-> t, history |-> hist])
             /\ calls' = Append(calls, Call("handleUserSpeech", "chat", <<>>, <<>>, "none"))
             /\ isProcessingRef' = TRUE
             /\ isLoading' = TRUE
             /\ UNCHANGED <<voiceCommands, isAvatarSpeakingRef, isAvatarSpeaking, webSpeechRef>>
      /\ UNCHANGED <<hasGreetedRef, hasStartedRef, userNameRef, avatarRef, sessionState,
                     queued, talking, startTimers, resumeTimers, sessions, speakErrors>>

\* onResult(transcript, true) of the recognizer: a final result.  The callback
\* calls the handleUserSpeech it was created with.
FinalResult(t) ==
  /\ webSpeechRef.exists /\ webSpeechRef.started /\ ~webSpeechRef.paused
  /\ IF isAvatarSpeakingRef
       THEN UNCHANGED <<svars, interimTranscript>>
       ELSE /\ interimTranscript' = <<>>
            /\ handleUserSpeech(t, webSpeechRef.hist)
  /\ UNCHANGED <<ivars, avars, ovars, userPaused>>

\* handleSendMessage: the text field is shown while the session is connected
\* and is disabled while isLoading or isAvatarSpeaking.
TextSubmit(t) ==
  /\ sessionState = "connected" /\ ~isLoading /\ ~isAvatarSpeaking
  /\ IF trim(t) = <<>> \/ ~avatarRef \/ isLoading
       THEN UNCHANGED <<svars, interimTranscript>>
       ELSE /\ handleUserSpeech(trim(t), chatHistory)
            /\ interimTranscript' = IF passesGuards(trim(t)) THEN <<>> ELSE interimTranscript
  /\ UNCHANGED <<ivars, avars, ovars, userPaused>>

\* Mutant: a reply that arrives after a reset has cleared the processing flag
\* is not appended to the chat history.
ChatReturns_DiscardStale(i, outcome) ==
  /\ calls[i].pc = "chat"
  /\ speakWithAvatarEntry(callChatAPIResult(outcome))
  /\ IF speakProceeds(callChatAPIResult(outcome))
       THEN /\ calls' = [calls EXCEPT ![i].pc = "delay",
                                      ![i].text = callChatAPIResult(outcome)]
            /\ chatHistory' =
                 IF calls[i].kind = "handleUserSpeech"
                   THEN IF isProcessingRef
                          THEN Append(chatHistory,
                                      ChatMessage("assistant", callChatAPIResult(outcome)))
                          ELSE chatHistory
                   ELSE chatHistory
            /\ UNCHANGED <<isLoading, isProcessingRef, hasGreetedRef>>
       ELSE /\ calls' = Remove(calls, i)
            /\ isLoading' = IF calls[i].kind = "handleUserSpeech" THEN FALSE ELSE isLoading
            /\ isProcessingRef' =
                 IF calls[i].kind = "handleUserSpeech" THEN FALSE ELSE isProcessingRef
            /\ chatHistory' =
                 CASE calls[i].kind = "handleUserSpeech" ->
                        IF isProcessingRef
                          THEN Append(chatHistory,
                                      ChatMessage("assistant", callChatAPIResult(outcome)))
                          ELSE chatHistory
                   [] calls[i].kind = "STREAM_READY" ->
                        <<ChatMessage("assistant", callChatAPIResult(outcome))>>
                   [] OTHER -> chatHistory
            /\ hasGreetedRef' = IF calls[i].kind = "STREAM_READY" THEN TRUE ELSE hasGreetedRef
  /\ UNCHANGED <<hasStartedRef, userNameRef, avatarRef, sessionState, queued, talking,
                 startTimers, resumeTimers, voiceCommands, chatRequests, sessions, speakErrors>>
  /\ UNCHANGED <<ivars, avars, ovars, mvars>>

\* callChatAPI settles for an invocation waiting on it: the reply, or the
\* text that stands in for it, is passed to speakWithAvatar.
ChatReturns(i, outcome) ==
  /\ calls[i].pc = "chat"
  /\ speakWithAvatarEntry(callChatAPIResult(outcome))
  /\ IF speakProceeds(callChatAPIResult(outcome))
       THEN /\ calls' = [calls EXCEPT ![i].pc = "delay",
                                      ![i].text = callChatAPIResult(outcome)]
            /\ chatHistory' =
                 IF calls[i].kind = "handleUserSpeech"
                   THEN Append(chatHistory, ChatMessage("assistant", callChatAPIResult(outcome)))
                   ELSE chatHistory
            /\ UNCHANGED <<isLoading, isProcessingRef, hasGreetedRef>>
       ELSE /\ calls' = Remove(calls, i)
            /\ isLoading' = IF calls[i].kind = "handleUserSpeech" THEN FALSE ELSE isLoading
            /\ isProcessingRef' =
                 IF calls[i].kind = "handleUserSpeech" THEN FALSE ELSE isProcessingRef
            /\ chatHistory' =
                 CASE calls[i].kind = "handleUserSpeech" ->
                        Append(chatHistory, ChatMessage("assistant", callChatAPIResult(outcome)))
                   [] calls[i].kind = "STREAM_READY" ->
                        <<ChatMessage("assistant", callChatAPIResult(outcome))>>
                   [] OTHER -> chatHistory
            /\ hasGreetedRef' = IF calls[i].kind = "STREAM_READY" THEN TRUE ELSE hasGreetedRef
  /\ UNCHANGED <<hasStartedRef, userNameRef, avatarRef, sessionState, queued, talking,
                 startTimers, resumeTimers, voiceCommands, chatRequests, sessions, speakErrors>>
  /\ UNCHANGED <<ivars, avars, ovars, mvars>>

(***************************************************************************)
(* Events of the avatar service, and the handlers startSession registers.  *)
(***************************************************************************)
\* AVATAR_START_TALKING: the service starts the next utterance it holds.
AvatarStartTalking ==
  /\ sessionState = "connected" /\ queued > 0 /\ talking = 0
  /\ queued' = queued - 1
  /\ talking' = talking + 1
  /\ isAvatarSpeakingRef' = TRUE
  /\ isAvatarSpeaking' = TRUE
  /\ webSpeechRef' = pause(webSpeechRef)
  /\ UNCHANGED <<isLoading, chatHistory, isProcessingRef, hasGreetedRef, hasStartedRef,
                 userNameRef, avatarRef, sessionState, calls, startTimers, resumeTimers,
                 voiceCommands, chatRequests, sessions, speakErrors>>
  /\ UNCHANGED <<ivars, avars, ovars, mvars>>

\* Mutant: the handler resumes the recognizer at once, without the wait.
AvatarStopTalking_ResumeAtOnce ==
  /\ talking > 0
  /\ talking' = talking - 1
  /\ isAvatarSpeakingRef' = FALSE
  /\ isAvatarSpeaking' = FALSE
  /\ webSpeechRef' = resume(webSpeechRef)
  /\ UNCHANGED <<isLoading, chatHistory, isProcessingRef, hasGreetedRef, hasStartedRef,
                 userNameRef, avatarRef, sessionState, queued, calls, resumeTimers,
                 startTimers, voiceCommands, chatRequests, sessions, speakErrors>>
  /\ UNCHANGED <<ivars, avars, ovars, mvars>>

\* AVATAR_STOP_TALKING: the flag is cleared, the resume waits 500 ms.
AvatarStopTalking ==
  /\ talking > 0
  /\ resumeTimers < MaxTimers
  /\ talking' = talking - 1
  /\ isAvatarSpeakingRef' = FALSE
  /\ isAvatarSpeaking' = FALSE
  /\ resumeTimers' = resumeTimers + 1
  /\ UNCHANGED <<isLoading, chatHistory, isProcessingRef, hasGreetedRef, hasStartedRef,
                 userNameRef, webSpeechRef, avatarRef, sessionState, queued, calls,
                 startTimers, voiceCommands, chatRequests, sessions, speakErrors>>
  /\ UNCHANGED <<ivars, avars, ovars, mvars>>

\* The 500 ms are over: webSpeechRef.current?.resume()
ResumeTimerFires ==
  /\ resumeTimers > 0
  /\ resumeTimers' = resumeTimers - 1
  /\ webSpeechRef' = resume(webSpeechRef)
  /\ UNCHANGED <<isLoading, chatHistory, isAvatarSpeaking, isProcessingRef, hasGreetedRef,
                 hasStartedRef, userNameRef, isAvatarSpeakingRef, avatarRef, sessionState,
                 queued, talking, calls, startTimers, voiceCommands, chatRequests, sessions, speakErrors>>
  /\ UNCHANGED <<ivars, avars, ovars, mvars>>

\* STREAM_READY: the session is connected; the handler greets once.
StreamReady ==
  /\ sessionState = "connecting"
  /\ sessionState' = "connected"
  /\ IF hasGreetedRef
       THEN UNCHANGED calls
       ELSE /\ Len(calls) < MaxCalls
            /\ calls' = Append(calls, Call("STREAM_READY", "wait", <<>>, <<>>, "none"))
  /\ UNCHANGED <<isLoading, chatHistory, isAvatarSpeaking, isProcessingRef, hasGreetedRef,
                 hasStartedRef, userNameRef, webSpeechRef, isAvatarSpeakingRef, avatarRef,
                 queued, talking, startTimers, resumeTimers, voiceCommands, chatRequests,
                 sessions, speakErrors>>
  /\ UNCHANGED <<ivars, avars, ovars, mvars>>

\* The 1500 ms of the STREAM_READY handler are over: with a user name the
\* greeting is requested from the chat endpoint, without one it is the fixed
\* text, which is spoken at once.
GreetingDelayFires(i) ==
  /\ calls[i].kind = "STREAM_READY" /\ calls[i].pc = "wait"
  /\ IF userNameRef # <<>>
       THEN /\ calls' = [calls EXCEPT ![i].pc = "chat"]
            /\ UNCHANGED <<isAvatarSpeakingRef, isAvatarSpeaking, webSpeechRef,
                           chatHistory, hasGreetedRef>>
       ELSE /\ speakWithAvatarEntry(DefaultGreeting)
            /\ IF speakProceeds(DefaultGreeting)
                 THEN /\ calls' = [calls EXCEPT ![i].pc = "delay", ![i].text = DefaultGreeting]
                      /\ UNCHANGED <<chatHistory, hasGreetedRef>>
                 ELSE /\ calls' = Remove(calls, i)
                      /\ chatHistory' = <<ChatMessage("assistant", DefaultGreeting)>>
                      /\ hasGreetedRef' = TRUE
  /\ UNCHANGED <<isLoading, isProcessingRef, hasStartedRef, userNameRef, avatarRef,
                 sessionState, queued, talking, startTimers, resumeTimers,
                 voiceCommands, chatRequests, sessions, speakErrors>>
  /\ UNCHANGED <<ivars, avars, ovars, mvars>>

(***************************************************************************)
(* startSession.                                                           *)
(***************************************************************************)
\* startSession() of the render whose chatHistory is hist, up to the await of
\* fetchAccessToken.  A call made while hasStartedRef is set is ignored.
startSession(hist, others) ==
  IF hasStartedRef
    THEN /\ calls' = others
         /\ UNCHANGED <<hasStartedRef, sessions>>
    ELSE /\ sessions < MaxSessions
         /\ Len(others) < MaxCalls
         /\ hasStartedRef' = TRUE
         /\ sessions' = sessions + 1
         /\ calls' = Append(others, Call("startSession", "token", <<>>, hist, "none"))

\* The start button, shown while the session is neither connected nor connecting.
ClickStart ==
  /\ sessionState = "inactive"
  /\ startSession(chatHistory, calls)
  /\ UNCHANGED <<isLoading, chatHistory, isAvatarSpeaking, isProcessingRef, hasGreetedRef,
                 userNameRef, webSpeechRef, isAvatarSpeakingRef, avatarRef, sessionState,
                 queued, talking, startTimers, resumeTimers, voiceCommands, chatRequests,
                 speakErrors>>
  /\ UNCHANGED <<ivars, avars, ovars, mvars>>

\* fetchAccessToken settles.  On success initAvatar creates the avatar, the
\* handlers are registered and startAvatar is called; on failure the catch
\* block clears hasStartedRef.
TokenReturns(i, ok) ==
  /\ calls[i].kind = "startSession" /\ calls[i].pc = "token"
  /\ IF ok
       THEN /\ avatarRef' = TRUE
            /\ sessionState' = "connecting"
            /\ calls' = [calls EXCEPT ![i].pc = "startAvatar"]
            /\ UNCHANGED hasStartedRef
       ELSE /\ hasStartedRef' = FALSE
            /\ calls' = Remove(calls, i)
            /\ UNCHANGED <<avatarRef, sessionState>>
  /\ UNCHANGED <<isLoading, chatHistory, isAvatarSpeaking, isProcessingRef, hasGreetedRef,
                 userNameRef, webSpeechRef, isAvatarSpeakingRef, queued, talking,
                 startTimers, resumeTimers, voiceCommands, chatRequests, sessions, speakErrors>>
  /\ UNCHANGED <<ivars, avars, ovars, mvars>>

\* startAvatar settles.  On success initWebSpeech runs, with the closure of
\* the render startSession was called in, and the recognizer's start is set
\* for 2000 ms later; on failure the catch block clears hasStartedRef.
StartAvatarReturns(i, ok) ==
  /\ calls[i].kind = "startSession" /\ calls[i].pc = "startAvatar"
  /\ IF ok
       THEN /\ sessionState # "inactive"
            /\ startTimers < MaxTimers
            /\ webSpeechRef' = initWebSpeech(webSpeechRef, calls[i].hist)
            /\ startTimers' = startTimers + 1
            /\ UNCHANGED <<hasStartedRef, sessionState>>
       ELSE /\ hasStartedRef' = FALSE
            /\ sessionState' = IF sessionState = "connecting" THEN "inactive" ELSE sessionState
            /\ UNCHANGED <<webSpeechRef, startTimers>>
  /\ calls' = Remove(calls, i)
  /\ UNCHANGED <<isLoading, chatHistory, isAvatarSpeaking, isProcessingRef, hasGreetedRef,
                 userNameRef, isAvatarSpeakingRef, avatarRef, queued, talking,
                 resumeTimers, voiceCommands, chatRequests, sessions, speakErrors>>
  /\ UNCHANGED <<ivars, avars, ovars, mvars>>

\* A start timer fires: webSpeechRef.current?.start()
StartTimerFires ==
  /\ startTimers > 0
  /\ startTimers' = startTimers - 1
  /\ webSpeechRef' = start(webSpeechRef)
  /\ UNCHANGED <<isLoading, chatHistory, isAvatarSpeaking, isProcessingRef, hasGreetedRef,
                 hasStartedRef, userNameRef, isAvatarSpeakingRef, avatarRef, sessionState,
                 queued, talking, calls, resumeTimers, voiceCommands, chatRequests, sessions, speakErrors>>
  /\ UNCHANGED <<ivars, avars, ovars, mvars>>

(***************************************************************************)
(* resetSession and the messages of the host page.                         *)
(***************************************************************************)
\* resetSession() up to its first await: the recognizer is destroyed.  name
\* and then are what the START_AVATAR handler does once the reset is over.
resetSession(name, then) ==
  /\ Len(calls) < MaxCalls
  /\ webSpeechRef' = NoRecognizer
  /\ calls' = Append(calls,
       Call("resetSession", IF avatarRef THEN "sdkStop" ELSE "hookStop", name, <<>>, then))
  /\ UNCHANGED <<isLoading, chatHistory, isAvatarSpeaking, isProcessingRef, hasGreetedRef,
                 hasStartedRef, userNameRef, isAvatarSpeakingRef, avatarRef, sessionState,
                 queued, talking, startTimers, resumeTimers, voiceCommands, chatRequests,
                 sessions, speakErrors>>

\* START_AVATAR, with or without a name
StartAvatar(name) ==
  /\ sessions < MaxSessions
  /\ resetSession(name, "start")
  /\ userPaused' = FALSE
  /\ UNCHANGED <<ivars, avars, ovars, interimTranscript>>

\* avatarRef.current.stopAvatar() settles; a rejection is ignored.
SdkStopReturns(i, ok) ==
  /\ calls[i].kind = "resetSession" /\ calls[i].pc = "sdkStop"
  /\ calls' = [calls EXCEPT ![i].pc = "hookStop"]
  /\ queued' = IF ok THEN 0 ELSE queued
  /\ talking' = IF ok THEN 0 ELSE talking
  /\ UNCHANGED <<isLoading, chatHistory, isAvatarSpeaking, isProcessingRef, hasGreetedRef,
                 hasStartedRef, userNameRef, webSpeechRef, isAvatarSpeakingRef, avatarRef,
                 sessionState, startTimers, resumeTimers, voiceCommands, chatRequests,
                 sessions, speakErrors>>
  /\ UNCHANGED <<ivars, avars, ovars, mvars>>

\* stopAvatar() of the session hook settles; a rejection is ignored.  The
\* refs and the state are cleared and the 1000 ms wait begins.
HookStopReturns(i, ok) ==
  /\ calls[i].kind = "resetSession" /\ calls[i].pc = "hookStop"
  /\ calls' = [calls EXCEPT ![i].pc = "wait"]
  /\ sessionState' = IF ok THEN "inactive" ELSE sessionState
  /\ queued' = IF ok THEN 0 ELSE queued
  /\ talking' = IF ok THEN 0 ELSE talking
  /\ hasStartedRef' = FALSE
  /\ hasGreetedRef' = FALSE
  /\ isProcessingRef' = FALSE
  /\ isAvatarSpeakingRef' = FALSE
  /\ userNameRef' = <<>>
  /\ chatHistory' = <<>>
  /\ isLoading' = FALSE
  /\ isAvatarSpeaking' = FALSE
  /\ interimTranscript' = <<>>
  /\ UNCHANGED <<webSpeechRef, avatarRef, startTimers, resumeTimers, voiceCommands,
                 chatRequests, sessions, speakErrors>>
  /\ UNCHANGED <<ivars, avars, ovars, userPaused>>

\* The 1000 ms of resetSession are over.  START_AVATAR goes on: the name is
\* stored and startSession is called.
ResetDelayFires(i) ==
  /\ calls[i].kind = "resetSession" /\ calls[i].pc = "wait"
  /\ IF calls[i].then = "start"
       THEN /\ userNameRef' = IF calls[i].text # <<>> THEN calls[i].text ELSE userNameRef
            /\ startSession(chatHistory, Remove(calls, i))
       ELSE /\ calls' = Remove(calls, i)
            /\ UNCHANGED <<userNameRef, hasStartedRef, sessions>>
  /\ UNCHANGED <<isLoading, chatHistory, isAvatarSpeaking, isProcessingRef, hasGreetedRef,
                 webSpeechRef, isAvatarSpeakingRef, avatarRef, sessionState, queued,
                 talking, startTimers, resumeTimers, voiceCommands, chatRequests,
                 speakErrors>>
  /\ UNCHANGED <<ivars, avars, ovars, mvars>>

(***************************************************************************)
(* The component.                                                          *)
(***************************************************************************)
\* START_AVATAR messages the host page posts: here without a name.
StartNames == {<<>>}

Init ==
  /\ transcript = <<>> /\ intent = NoIntent
  /\ InitComponent /\ InitAutoStart /\ InitOpenAI /\ InitMicrophone

\* A transcript arrives and is dispatched: handleUserSpeech and the calls it
\* awaits, speakWithAvatar included.
Dispatch ==
  \/ \E t \in Utterances : FinalResult(t)
  \/ \E t \in Utterances : TextSubmit(t)
  \/ \E i \in DOMAIN calls, outcome \in ChatOutcomes : ChatReturns(i, outcome)
  \/ \E i \in DOMAIN calls : SpeakDelayFires(i)
  \/ \E i \in DOMAIN calls, ok \in BOOLEAN : InterruptReturns(i, ok)
  \/ \E i \in DOMAIN calls, ok \in BOOLEAN : SpeakReturns(i, ok)

\* The events of the avatar service and the timers of their handlers.
AvatarEvents ==
  \/ StreamReady
  \/ \E i \in DOMAIN calls : GreetingDelayFires(i)
  \/ AvatarStartTalking
  \/ AvatarStopTalking
  \/ ResumeTimerFires

\* A session starts: the token is fetched, the avatar started, the recognizer
\* created and started.
SessionStart ==
  \/ ClickStart
  \/ \E i \in DOMAIN calls : TokenReturns(i, TRUE)
  \/ \E i \in DOMAIN calls : StartAvatarReturns(i, TRUE)
  \/ StartTimerFires

\* START_AVATAR: the session is reset and started again.
Restart ==
  \/ \E name \in StartNames : StartAvatar(name)
  \/ \E i \in DOMAIN calls : SdkStopReturns(i, TRUE)
  \/ \E i \in DOMAIN calls : HookStopReturns(i, TRUE)
  \/ \E i \in DOMAIN calls : ResetDelayFires(i)

\* The component with sessions that are started, used and started again.
Next == Dispatch \/ AvatarEvents \/ SessionStart \/ Restart

Spec == Init /\ [][Next]_vars

\* The component with one session: started by the button and never reset.
NextSession == Dispatch \/ AvatarEvents \/ SessionStart

SpecSession == Init /\ [][NextSession]_vars

\* The dispatcher within one session, on the wider choice of inputs, with a
\* chat endpoint that replies and an avatar whose interrupt() and speak()
\* succeed.
DispatchAny ==
  \/ \E t \in DispatcherUtterances : FinalResult(t)
  \/ \E t \in DispatcherUtterances : TextSubmit(t)
  \/ \E i \in DOMAIN calls : ChatReturns(i, "reply")
  \/ \E i \in DOMAIN calls : SpeakDelayFires(i)
  \/ \E i \in DOMAIN calls : InterruptReturns(i, TRUE)
  \/ \E i \in DOMAIN calls : SpeakReturns(i, TRUE)

NextDispatcher == DispatchAny \/ AvatarEvents \/ SessionStart

SpecDispatcher == Init /\ [][NextDispatcher]_vars

\* One session whose timers fire: a pending setTimeout callback is run by the
\* event loop once its time is over.
SpecSessionTimers ==
  /\ SpecSession
  /\ WF_vars(ResumeTimerFires)
  /\ WF_vars(StartTimerFires)

\* One session in which every external call settles: callChatAPI, the 300 ms
\* wait, interrupt() and speak() return or fail, the avatar service connects
\* the stream and plays the utterances it holds, and the timers fire.
SpecSessionReturns ==
  /\ SpecSessionTimers
  /\ WF_vars(\E i \in DOMAIN calls, outcome \in ChatOutcomes : ChatReturns(i, outcome))
  /\ WF_vars(\E i \in DOMAIN calls : SpeakDelayFires(i))
  /\ WF_vars(\E i \in DOMAIN calls, ok \in BOOLEAN : InterruptReturns(i, ok))
  /\ WF_vars(\E i \in DOMAIN calls, ok \in BOOLEAN : SpeakReturns(i, ok))
  /\ WF_vars(StreamReady)
  /\ WF_vars(AvatarStartTalking)
  /\ WF_vars(AvatarStopTalking)

(***************************************************************************)
(* The microphone: the button that mutes the recognizer, and the interim   *)
(* results the recognizer delivers while the user is speaking.             *)
(***************************************************************************)
\* The microphone button, shown while the session is connected and disabled
\* while isAvatarSpeaking.  Without a recognizer one is created and started
\* 100 ms later; otherwise the recognizer is paused or resumed.
toggleMicrophone ==
  /\ sessionState = "connected" /\ ~isAvatarSpeaking
  /\ IF ~webSpeechRef.exists
       THEN /\ startTimers < MaxTimers
            /\ webSpeechRef' = initWebSpeech(webSpeechRef, chatHistory)
            /\ startTimers' = startTimers + 1
            /\ UNCHANGED userPaused
       ELSE /\ webSpeechRef' = IF webSpeechRef.paused
                                 THEN resume(webSpeechRef)
                                 ELSE pause(webSpeechRef)
            /\ userPaused' = ~webSpeechRef.paused
            /\ UNCHANGED startTimers
  /\ UNCHANGED <<isLoading, chatHistory, isAvatarSpeaking, isProcessingRef, hasGreetedRef,
                 hasStartedRef, userNameRef, isAvatarSpeakingRef, avatarRef, sessionState,
                 queued, talking, calls, resumeTimers, voiceCommands, chatRequests,
                 sessions, speakErrors>>
  /\ UNCHANGED <<ivars, avars, ovars, interimTranscript>>

\* What the recognizer has heard so far while the user is still speaking.
InterimTranscripts ==
  {
    <<"raeng", "king">>,     \* 랭킹
    <<" ">>                  \* blank
  }

\* Mutant: an interim result is handled like a final one.
InterimResult_AsFinal(t) ==
  /\ webSpeechRef.exists /\ webSpeechRef.started /\ ~webSpeechRef.paused
  /\ IF isAvatarSpeakingRef
       THEN UNCHANGED <<svars, interimTranscript>>
       ELSE /\ interimTranscript' = t
            /\ handleUserSpeech(t, webSpeechRef.hist)
  /\ UNCHANGED <<ivars, avars, ovars, userPaused>>

\* onResult(transcript, false) of the recognizer: an interim result.
InterimResult(t) ==
  /\ webSpeechRef.exists /\ webSpeechRef.started /\ ~webSpeechRef.paused
  /\ interimTranscript' = IF isAvatarSpeakingRef THEN interimTranscript ELSE t
  /\ UNCHANGED <<ivars, svars, avars, ovars, userPaused>>

Microphone ==
  \/ toggleMicrophone
  \/ \E t \in InterimTranscripts : InterimResult(t)

NextMicrophone == NextSession \/ Microphone

\* One session in which the user also uses the microphone button and the
\* recognizer also delivers interim results.
SpecMicrophone == Init /\ [][NextMicrophone]_vars

NextInterim == NextDispatcher \/ \E t \in InterimTranscripts : InterimResult(t)

\* The dispatcher within one session, on the wider choice of inputs, with a
\* recognizer that also delivers interim results.
SpecInterim == Init /\ [][NextInterim]_vars

(***************************************************************************)
(* Sessions that fail, are disconnected and are started again.             *)
(***************************************************************************)
\* STREAM_READY is delivered once more while the session is connected: the
\* handler runs again.
StreamReadyAgain ==
  /\ sessionState = "connected"
  /\ IF hasGreetedRef
       THEN UNCHANGED calls
       ELSE /\ Len(calls) < MaxCalls
            /\ calls' = Append(calls, Call("STREAM_READY", "wait", <<>>, <<>>, "none"))
  /\ UNCHANGED <<isLoading, chatHistory, isAvatarSpeaking, isProcessingRef, hasGreetedRef,
                 hasStartedRef, userNameRef, webSpeechRef, isAvatarSpeakingRef, avatarRef,
                 sessionState, queued, talking, startTimers, resumeTimers, voiceCommands,
                 chatRequests, sessions, speakErrors>>
  /\ UNCHANGED <<ivars, avars, ovars, mvars>>

\* STREAM_DISCONNECTED: the session is over; the handler clears the two
\* flags and destroys the recognizer.
StreamDisconnected ==
  /\ sessionState = "connected"
  /\ sessionState' = "inactive"
  /\ queued' = 0
  /\ talking' = 0
  /\ hasGreetedRef' = FALSE
  /\ hasStartedRef' = FALSE
  /\ webSpeechRef' = NoRecognizer
  /\ userPaused' = FALSE
  /\ UNCHANGED <<isLoading, chatHistory, isAvatarSpeaking, isProcessingRef, userNameRef,
                 isAvatarSpeakingRef, avatarRef, calls, startTimers, resumeTimers,
                 voiceCommands, chatRequests, sessions, speakErrors>>
  /\ UNCHANGED <<ivars, avars, ovars, interimTranscript>>

\* Names the host page sends.
UserNames == {<<"gim">>}    \* 김

\* USER_INFO with a name
UserInfo(name) ==
  /\ userNameRef # name
  /\ userNameRef' = name
  /\ UNCHANGED <<isLoading, chatHistory, isAvatarSpeaking, isProcessingRef, hasGreetedRef,
                 hasStartedRef, webSpeechRef, isAvatarSpeakingRef, avatarRef, sessionState,
                 queued, talking, calls, startTimers, resumeTimers, voiceCommands,
                 chatRequests, sessions, speakErrors>>
  /\ UNCHANGED <<ivars, avars, ovars, mvars>>

\* A session is started by the button; the token request or startAvatar may
\* fail.
SessionStartOrFailure ==
  \/ ClickStart
  \/ \E i \in DOMAIN calls, ok \in BOOLEAN : TokenReturns(i, ok)
  \/ \E i \in DOMAIN calls, ok \in BOOLEAN : StartAvatarReturns(i, ok)
  \/ StartTimerFires

\* The greeting: the STREAM_READY handler and the calls it awaits.
Greeting ==
  \/ StreamReady
  \/ StreamReadyAgain
  \/ \E i \in DOMAIN calls : GreetingDelayFires(i)
  \/ \E i \in DOMAIN calls, outcome \in ChatOutcomes : ChatReturns(i, outcome)
  \/ \E i \in DOMAIN calls : SpeakDelayFires(i)
  \/ \E i \in DOMAIN calls, ok \in BOOLEAN : InterruptReturns(i, ok)
  \/ \E i \in DOMAIN calls, ok \in BOOLEAN : SpeakReturns(i, ok)
  \/ AvatarStartTalking
  \/ AvatarStopTalking
  \/ ResumeTimerFires

NextLifecycle ==
  \/ SessionStartOrFailure
  \/ Greeting
  \/ StreamDisconnected
  \/ \E name \in UserNames : UserInfo(name)

\* The component over several sessions, without transcripts: sessions are
\* started by the button, fail or connect, greet, and are disconnected.
SpecLifecycle == Init /\ [][NextLifecycle]_vars

(***************************************************************************)
(* The auto-start variant: the component with startSessionV2 and the       *)
(* effect that starts a voice chat one second after the page has loaded.   *)
(* It has no chat of its own; of the state above it uses the session state *)
(* of the hook and the invocations in flight.                              *)
(***************************************************************************)
\* The state of the chat components, which this variant does not have.
chatOnly ==
  <<isLoading, chatHistory, isAvatarSpeaking, isProcessingRef, hasGreetedRef,
    hasStartedRef, userNameRef, webSpeechRef, isAvatarSpeakingRef, queued, talking,
    startTimers, resumeTimers, voiceCommands, chatRequests, sessions, speakErrors,
    ovars, mvars>>

\* startSessionV2(isVoiceChat) up to the await of fetchAccessToken.
startSessionV2(isVoiceChat) ==
  /\ Len(calls) < MaxCalls
  /\ calls' = Append(calls,
       Call("startSessionV2", "token", <<>>, <<>>, IF isVoiceChat THEN "voiceChat" ELSE "none"))

\* The dependencies of the effect have changed since its last run, or it has
\* not run yet: React runs it after the render is committed.
AutoStartEffectIsDue ==
  \/ ~autoStartEffect.ran
  \/ autoStartEffect.isAutoStarted # isAutoStarted
  \/ autoStartEffect.sessionState # sessionState

\* return () => clearTimeout(timer), returned by the run that set the timer.
\* Clearing a timer that has fired does nothing.
clearTimeout(timer) == IF timer = "armed" THEN "cleared" ELSE timer

\* The auto-start effect runs: first the cleanup of its last run, then its
\* body, with the isAutoStarted and sessionState of the committed render.
AutoStartEffect ==
  /\ AutoStartEffectIsDue
  /\ IF ~isAutoStarted /\ sessionState = "inactive"
       THEN /\ isAutoStarted' = TRUE
            /\ autoStartEffect' =
                 [ran |-> TRUE, isAutoStarted |-> isAutoStarted,
                  sessionState |-> sessionState, timer |-> "armed"]
       ELSE /\ UNCHANGED isAutoStarted
            /\ autoStartEffect' =
                 [ran |-> TRUE, isAutoStarted |-> isAutoStarted,
                  sessionState |-> sessionState,
                  timer |-> clearTimeout(autoStartEffect.timer)]
  /\ UNCHANGED <<autoStarts, sessionState, calls, avatarRef, chatOnly, ivars>>

\* The 1000 ms are over and the timer has not been cleared:
\* startSessionV2(true).
AutoStartTimerFires ==
  /\ autoStartEffect.timer = "armed"
  /\ autoStartEffect' = [autoStartEffect EXCEPT !.timer = "fired"]
  /\ autoStarts' = autoStarts + 1
  /\ startSessionV2(TRUE)
  /\ UNCHANGED <<isAutoStarted, sessionState, avatarRef, chatOnly, ivars>>

\* The two start buttons, shown while the session is inactive.
ManualStart(isVoiceChat) ==
  /\ autoStartEffect.ran
  /\ sessionState = "inactive"
  /\ startSessionV2(isVoiceChat)
  /\ UNCHANGED <<avars, sessionState, avatarRef, chatOnly, ivars>>

\* fetchAccessToken settles: initAvatar, the handlers, startAvatar; a failure
\* is logged by the catch block.
TokenReturnsV2(i, ok) ==
  /\ calls[i].kind = "startSessionV2" /\ calls[i].pc = "token"
  /\ IF ok
       THEN /\ avatarRef' = TRUE
            /\ sessionState' = "connecting"
            /\ calls' = [calls EXCEPT ![i].pc = "startAvatar"]
       ELSE /\ calls' = Remove(calls, i)
            /\ UNCHANGED <<avatarRef, sessionState>>
  /\ UNCHANGED <<avars, chatOnly, ivars>>

\* startAvatar settles: in voice-chat mode startVoiceChat is awaited next; a
\* failure is logged by the catch block.
StartAvatarReturnsV2(i, ok) ==
  /\ calls[i].kind = "startSessionV2" /\ calls[i].pc = "startAvatar"
  /\ IF ok /\ calls[i].then = "voiceChat"
       THEN calls' = [calls EXCEPT ![i].pc = "voiceChat"]
       ELSE calls' = Remove(calls, i)
  /\ sessionState' = IF ~ok /\ sessionState = "connecting" THEN "inactive" ELSE sessionState
  /\ UNCHANGED <<avars, avatarRef, chatOnly, ivars>>

\* startVoiceChat settles; a failure is logged by the catch block.
VoiceChatReturns(i) ==
  /\ calls[i].kind = "startSessionV2" /\ calls[i].pc = "voiceChat"
  /\ calls' = Remove(calls, i)
  /\ UNCHANGED <<avars, sessionState, avatarRef, chatOnly, ivars>>

\* STREAM_READY and STREAM_DISCONNECTED: the handlers log the event, the hook
\* moves the session state.
StreamReadyV2 ==
  /\ sessionState = "connecting"
  /\ sessionState' = "connected"
  /\ UNCHANGED <<avars, calls, avatarRef, chatOnly, ivars>>

StreamDisconnectedV2 ==
  /\ sessionState = "connected"
  /\ sessionState' = "inactive"
  /\ UNCHANGED <<avars, calls, avatarRef, chatOnly, ivars>>

\* What happens without the user: the effect, the timer, the calls that
\* settle and the events of the stream.
AutoStartSteps ==
  \/ AutoStartEffect
  \/ AutoStartTimerFires
  \/ \E i \in DOMAIN calls, ok \in BOOLEAN : TokenReturnsV2(i, ok)
  \/ \E i \in DOMAIN calls, ok \in BOOLEAN : StartAvatarReturnsV2(i, ok)
  \/ \E i \in DOMAIN calls : VoiceChatReturns(i)
  \/ StreamReadyV2
  \/ StreamDisconnectedV2

NextAutoStart == AutoStartSteps \/ \E isVoiceChat \in BOOLEAN : ManualStart(isVoiceChat)

\* The auto-start variant after its mount.
SpecAutoStart == Init /\ [][NextAutoStart]_vars

\* The same, with an event loop that runs what is due: the effect of a
\* committed render, a timer whose time is over, a call that has settled.
SpecAutoStartFair ==
  /\ SpecAutoStart
  /\ WF_vars(AutoStartEffect)
  /\ WF_vars(AutoStartTimerFires)
  /\ WF_vars(\E i \in DOMAIN calls : TokenReturnsV2(i, TRUE))
  /\ WF_vars(\E i \in DOMAIN calls : StartAvatarReturnsV2(i, TRUE))
  /\ WF_vars(\E i \in DOMAIN calls : VoiceChatReturns(i))
  /\ WF_vars(StreamReadyV2)

(***************************************************************************)
(* The OpenAI-chat variant: the second function InteractiveAvatar of       *)
(* InteractiveAvatar.tsx.  The avatar's voice chat delivers the user's     *)
(* speech as USER_END_MESSAGE, the text field calls handleSendMessage, and *)
(* both ask /api/chat and let the avatar speak the reply.                  *)
(***************************************************************************)
\* 안녕하세요! 차의과학대학교 경영학전공 AI 상담사 경영이입니다. 전공 선택, 취업,
\* 커리큘럼 등 궁금한 점을 편하게 물어보세요!
GreetingOpenAI ==
  <<"xan", "nyeong", "ha", "se", "xyo", "!", " ", "cha", "xui", "gwa", "hag",
    "dae", "hag", "gyo", " ", "gyeong", "xyeong", "hag", "jeon", "gong", " ",
    "A", "I", " ", "sang", "dam", "sa", " ", "gyeong", "xyeong", "xi", "xib",
    "ni", "da", ".", " ", "jeon", "gong", " ", "seon", "taeg", ",", " ",
    "chwi", "xeob", ",", " ", "keo", "ri", "kyul", "reom", " ", "deung", " ",
    "gung", "geum", "han", " ", "jeom", "xeul", " ", "pyeon", "ha", "ge", " ",
    "mul", "xeo", "bo", "se", "xyo", "!">>

\* 죄송합니다. 일시적인 오류가 발생했습니다. 다시 말씀해 주세요.
OpenAIErrorText ==
  <<"joe", "song", "hab", "ni", "da", ".", " ", "xil", "si", "jeog", "xin", " ",
    "xo", "ryu", "ga", " ", "bal", "saeng", "haess", "seub", "ni", "da", ".",
    " ", "da", "si", " ", "mal", "sseum", "hae", " ", "ju", "se", "xyo", ".">>

\* callOpenAI's return value: data.reply, or the apology when the request fails.
OpenAIOutcomes == {"reply", "error"}

callOpenAI(outcome) == IF outcome = "reply" THEN ServerReply ELSE OpenAIErrorText

\* What the user says or types.
OpenAIMessages ==
  {
    <<"xan", "nyeong">>,     \* 안녕
    <<"chwi", "xeob">>,      \* 취업
    <<" ">>                  \* blank
  }

\* The state of the first component that this variant does not have, and the
\* state of the other models.
notOpenAI ==
  <<isAvatarSpeaking, hasGreetedRef, hasStartedRef, userNameRef, webSpeechRef,
    isAvatarSpeakingRef, queued, talking, resumeTimers, voiceCommands, speakErrors,
    ivars, avars, mvars>>

\* The chat cycles in flight: invocations of handleUserSpeech and of
\* handleSendMessage between their first statement and their last.
CyclesInFlight ==
  {i \in DOMAIN calls : calls[i].kind \in {"handleUserSpeechOpenAI", "handleSendMessageOpenAI"}}

\* The start button, shown while the session is inactive: startSession up to
\* the await of fetchAccessToken.
ClickStartOpenAI ==
  /\ sessionState = "inactive"
  /\ sessions < MaxSessions
  /\ Len(calls) < MaxCalls
  /\ sessions' = sessions + 1
  /\ calls' = Append(calls, Call("startSessionOpenAI", "token", <<>>, <<>>, "none"))
  /\ UNCHANGED <<isLoading, chatHistory, isProcessingRef, avatarRef, sessionState,
                 startTimers, chatRequests, voiceChatStarted, notOpenAI>>

\* fetchAccessToken settles: initAvatar, the handlers, startAvatar; a failure
\* is logged by the catch block.
TokenReturnsOpenAI(i, ok) ==
  /\ calls[i].kind = "startSessionOpenAI" /\ calls[i].pc = "token"
  /\ IF ok
       THEN /\ avatarRef' = TRUE
            /\ sessionState' = "connecting"
            /\ calls' = [calls EXCEPT ![i].pc = "startAvatar"]
       ELSE /\ calls' = Remove(calls, i)
            /\ UNCHANGED <<avatarRef, sessionState>>
  /\ UNCHANGED <<isLoading, chatHistory, isProcessingRef, startTimers, chatRequests,
                 sessions, voiceChatStarted, notOpenAI>>

\* startAvatar settles: startVoiceChat is awaited next; a failure is logged
\* by the catch block.
StartAvatarReturnsOpenAI(i, ok) ==
  /\ calls[i].kind = "startSessionOpenAI" /\ calls[i].pc = "startAvatar"
  /\ IF ok
       THEN /\ sessionState # "inactive"
            /\ calls' = [calls EXCEPT ![i].pc = "voiceChat"]
            /\ UNCHANGED sessionState
       ELSE /\ calls' = Remove(calls, i)
            /\ sessionState' = IF sessionState = "connecting" THEN "inactive" ELSE sessionState
  /\ UNCHANGED <<isLoading, chatHistory, isProcessingRef, avatarRef, startTimers,
                 chatRequests, sessions, voiceChatStarted, notOpenAI>>

\* startVoiceChat settles: the greeting is set for 1500 ms later; a failure
\* is logged by the catch block.
VoiceChatReturnsOpenAI(i, ok) ==
  /\ calls[i].kind = "startSessionOpenAI" /\ calls[i].pc = "voiceChat"
  /\ calls' = Remove(calls, i)
  /\ IF ok
       THEN /\ startTimers < MaxTimers
            /\ startTimers' = startTimers + 1
            /\ voiceChatStarted' = TRUE
       ELSE UNCHANGED <<startTimers, voiceChatStarted>>
  /\ UNCHANGED <<isLoading, chatHistory, isProcessingRef, avatarRef, sessionState,
                 chatRequests, sessions, notOpenAI>>

\* STREAM_READY: the handler logs the event, the hook moves the session state.
StreamReadyOpenAI ==
  /\ sessionState = "connecting"
  /\ sessionState' = "connected"
  /\ UNCHANGED <<isLoading, chatHistory, isProcessingRef, avatarRef, calls, startTimers,
                 chatRequests, sessions, voiceChatStarted, notOpenAI>>

\* The 1500 ms are over: speakWithAvatar(greeting) is awaited.
GreetingTimerFires ==
  /\ startTimers > 0
  /\ startTimers' = startTimers - 1
  /\ IF speakProceeds(GreetingOpenAI)
       THEN /\ Len(calls) < MaxCalls
            /\ calls' = Append(calls, Call("greetingOpenAI", "speak", GreetingOpenAI, <<>>, "none"))
            /\ UNCHANGED chatHistory
       ELSE /\ chatHistory' = <<ChatMessage("assistant", GreetingOpenAI)>>
            /\ UNCHANGED calls
  /\ UNCHANGED <<isLoading, isProcessingRef, avatarRef, sessionState, chatRequests,
                 sessions, voiceChatStarted, notOpenAI>>

\* What the caller does once speakWithAvatar has returned.
\*   handleUserSpeech: setIsLoading(false); isProcessingRef.current = false
\*   handleSendMessage: setIsLoading(false)
\*   the greeting: setChatHistory([greeting])
AfterSpeakOpenAI(c) ==
  /\ isLoading' = IF c.kind = "greetingOpenAI" THEN isLoading ELSE FALSE
  /\ isProcessingRef' = IF c.kind = "handleUserSpeechOpenAI" THEN FALSE ELSE isProcessingRef
  /\ chatHistory' = IF c.kind = "greetingOpenAI"
                      THEN <<ChatMessage("assistant", c.text)>>
                      ELSE chatHistory

\* avatarRef.current.speak() settles; a rejection is logged.
SpeakReturnsOpenAI(i) ==
  /\ calls[i].kind \in {"greetingOpenAI", "handleUserSpeechOpenAI", "handleSendMessageOpenAI"}
  /\ calls[i].pc = "speak"
  /\ AfterSpeakOpenAI(calls[i])
  /\ calls' = Remove(calls, i)
  /\ UNCHANGED <<avatarRef, sessionState, startTimers, chatRequests, sessions,
                 voiceChatStarted, notOpenAI>>

\* The statements both input paths share: newHistory is set, callOpenAI is
\* called with the message and the chatHistory of this render.
ChatCycleBegins(kind, text) ==
  /\ Len(chatRequests) < MaxDispatches
  /\ Len(calls) < MaxCalls
  /\ isLoading' = TRUE
  /\ chatHistory' = Append(chatHistory, ChatMessage("user", text))
  /\ chatRequests' = Append(chatRequests, [message |-> text, history |-> chatHistory])
  /\ calls' = Append(calls,
       Call(kind, "chat", <<>>, Append(chatHistory, ChatMessage("user", text)), "none"))

\* handleUserSpeech(transcript) up to the await of callOpenAI.
handleUserSpeechOpenAI(t) ==
  IF trim(t) = <<>> \/ isProcessingRef
    THEN UNCHANGED <<isLoading, chatHistory, isProcessingRef, calls, chatRequests>>
    ELSE /\ isProcessingRef' = TRUE
         /\ ChatCycleBegins("handleUserSpeechOpenAI", t)

\* USER_END_MESSAGE of the voice chat: a final message that is not blank is
\* passed to handleUserSpeech.
UserEndMessage(t) ==
  /\ voiceChatStarted /\ sessionState = "connected"
  /\ IF trim(t) = <<>>
       THEN UNCHANGED <<isLoading, chatHistory, isProcessingRef, calls, chatRequests>>
       ELSE handleUserSpeechOpenAI(t)
  /\ UNCHANGED <<avatarRef, sessionState, startTimers, sessions, voiceChatStarted, notOpenAI>>

\* handleSendMessage with inputText = t; the field and the button are shown
\* while the session is connected and are disabled while isLoading.
handleSendMessageOpenAI(t) ==
  /\ sessionState = "connected" /\ ~isLoading
  /\ IF trim(t) = <<>> \/ ~avatarRef \/ isLoading
       THEN UNCHANGED <<isLoading, chatHistory, calls, chatRequests>>
       ELSE ChatCycleBegins("handleSendMessageOpenAI", trim(t))
  /\ UNCHANGED <<isProcessingRef, avatarRef, sessionState, startTimers, sessions,
                 voiceChatStarted, notOpenAI>>

\* callOpenAI settles for a cycle: the history is set to the cycle's
\* newHistory with the reply, and speakWithAvatar(reply) is awaited.
OpenAIReturns(i, outcome) ==
  /\ i \in CyclesInFlight /\ calls[i].pc = "chat"
  /\ IF speakProceeds(callOpenAI(outcome))
       THEN /\ calls' = [calls EXCEPT ![i].pc = "speak", ![i].text = callOpenAI(outcome)]
            /\ chatHistory' = Append(calls[i].hist, ChatMessage("assistant", callOpenAI(outcome)))
            /\ UNCHANGED <<isLoading, isProcessingRef>>
       ELSE /\ calls' = Remove(calls, i)
            /\ chatHistory' = Append(calls[i].hist, ChatMessage("assistant", callOpenAI(outcome)))
            /\ isLoading' = FALSE
            /\ isProcessingRef' =
                 IF calls[i].kind = "handleUserSpeechOpenAI" THEN FALSE ELSE isProcessingRef
  /\ UNCHANGED <<avatarRef, sessionState, startTimers, chatRequests, sessions,
                 voiceChatStarted, notOpenAI>>

\* startSession and what it sets off.
SessionStartOpenAI ==
  \/ ClickStartOpenAI
  \/ \E i \in DOMAIN calls, ok \in BOOLEAN : TokenReturnsOpenAI(i, ok)
  \/ \E i \in DOMAIN calls, ok \in BOOLEAN : StartAvatarReturnsOpenAI(i, ok)
  \/ \E i \in DOMAIN calls, ok \in BOOLEAN : VoiceChatReturnsOpenAI(i, ok)
  \/ StreamReadyOpenAI
  \/ GreetingTimerFires

\* The two input paths and the calls they await.
ChatCycles ==
  \/ \E t \in OpenAIMessages : UserEndMessage(t)
  \/ \E t \in OpenAIMessages : handleSendMessageOpenAI(t)
  \/ \E i \in DOMAIN calls, outcome \in OpenAIOutcomes : OpenAIReturns(i, outcome)
  \/ \E i \in DOMAIN calls : SpeakReturnsOpenAI(i)

NextOpenAI == SessionStartOpenAI \/ ChatCycles

\* The OpenAI-chat variant after its mount.
SpecOpenAI == Init /\ [][NextOpenAI]_vars

(***************************************************************************)
(* Properties of analyzeVoiceIntent, stated on the tables themselves.      *)
(***************************************************************************)
UIActionsInOrder ==
  <<
    <<"S", "H", "O", "W", "_", "M", "Y", "_", "R", "E", "C", "O", "R", "D", "S">>,
    <<"S", "H", "O", "W", "_", "D", "A", "S", "H", "B", "O", "A", "R", "D">>,
    <<"S", "H", "O", "W", "_", "R", "A", "N", "K", "I", "N", "G">>,
    <<"C", "L", "O", "S", "E", "_", "M", "O", "D", "A", "L">>,
    <<"S", "A", "V", "E", "_", "S", "C", "O", "R", "E">>
  >>

GamesInOrder ==
  <<
    <<"h", "w", "a", "t", "u">>,
    <<"p", "a", "t", "t", "e", "r", "n">>,
    <<"m", "e", "m", "o", "r", "y">>,
    <<"p", "r", "o", "v", "e", "r", "b">>,
    <<"c", "a", "l", "c">>,
    <<"s", "e", "q", "u", "e", "n", "c", "e">>
  >>

GameActionsInOrder ==
  <<
    <<"S", "T", "A", "R", "T", "_", "G", "A", "M", "E", "_", "H", "W", "A", "T", "U">>,
    <<"S", "T", "A", "R", "T", "_", "G", "A", "M", "E", "_", "P", "A", "T", "T", "E", "R", "N">>,
    <<"S", "T", "A", "R", "T", "_", "G", "A", "M", "E", "_", "M", "E", "M", "O", "R", "Y">>,
    <<"S", "T", "A", "R", "T", "_", "G", "A", "M", "E", "_", "P", "R", "O", "V", "E", "R", "B">>,
    <<"S", "T", "A", "R", "T", "_", "G", "A", "M", "E", "_", "C", "A", "L", "C">>,
    <<"S", "T", "A", "R", "T", "_", "G", "A", "M", "E", "_", "S", "E", "Q", "U", "E", "N", "C", "E">>
  >>

IntentTypes == {"GAME_START", "UI_CONTROL", "INFO_REQUEST", "GENERAL_CHAT"}

Analyzed == intent # NoIntent

Text == normalizedText(transcript)

ContainsAny(text, keywords) == \E n \in DOMAIN keywords : includes(text, keywords[n])

Least(S) == CHOOSE m \in S : \A n \in S : m <= n

\* The UI categories, and the game categories, with a phrase in the text.
UIHits == {a \in DOMAIN UI_CONTROL : ContainsAny(Text, UI_CONTROL[a].keywords)}

GameHits == {g \in DOMAIN GAME_START : ContainsAny(Text, GAME_START[g].keywords)}

InfoHit == ContainsAny(Text, INFO_REQUEST)

GameWord == <<"ge", "xim">>     \* 게임
StartWord == <<"si", "jag">>    \* 시작

\* Some trigger phrase in the text is accepted as a game start.
GameAccepted ==
  \E g \in DOMAIN GAME_START : \E k \in DOMAIN GAME_START[g].keywords :
     /\ includes(Text, GAME_START[g].keywords[k])
     /\ \/ hasActionWord(Text)
        \/ includes(GAME_START[g].keywords[k], GameWord)
        \/ includes(GAME_START[g].keywords[k], StartWord)
        \/ /\ Len(GAME_START[g].keywords[k]) > 2
           /\ \E j \in 1..3 : includes(Text, GAME_START[g].keywords[j])

\* Every trigger phrase in the text has at most two characters.
OnlyShortGameMatches ==
  \A g \in DOMAIN GAME_START : \A k \in DOMAIN GAME_START[g].keywords :
     includes(Text, GAME_START[g].keywords[k]) => Len(GAME_START[g].keywords[k]) <= 2

\* The game categories with a phrase of more than two characters in the text
\* and one of their first three phrases in the text.
LongLeadingGames ==
  {g \in DOMAIN GAME_START :
     /\ \E k \in DOMAIN GAME_START[g].keywords :
           /\ includes(Text, GAME_START[g].keywords[k])
           /\ Len(GAME_START[g].keywords[k]) > 2
     /\ \E j \in 1..3 : includes(Text, GAME_START[g].keywords[j])}

HwatuStart == <<"hwa", "tu", " ", "si", "jag">>    \* 화투 시작
NumberWord == <<"sus", "ja">>                      \* 숫자

\* C1: a transcript containing a UI_CONTROL phrase is classified UI_CONTROL
\* with confidence 0.95 and the first UI category, in the order
\* SHOW_MY_RECORDS, SHOW_DASHBOARD, SHOW_RANKING, CLOSE_MODAL, SAVE_SCORE,
\* that has a phrase in the text, whatever else the transcript contains.
C1_UIControlPrecedence ==
  (Analyzed /\ UIHits # {}) =>
     intent = [type |-> "UI_CONTROL",
               action |-> UIActionsInOrder[Least(UIHits)],
               confidence |-> 95]

\* A UI phrase together with a game phrase and an action word.
C1_Witness ==
  /\ Analyzed
  /\ UIHits # {}
  /\ GameHits # {}
  /\ hasActionWord(Text)
  /\ intent.type = "UI_CONTROL"

\* C6: the call always returns an intent, and a transcript with no UI phrase,
\* no accepted game match and no info phrase yields exactly
\* {type: GENERAL_CHAT, confidence: 0.7}, with neither action nor game.
C6_DefaultGeneralChat ==
  Analyzed =>
     /\ intent.type \in IntentTypes
     /\ (UIHits = {} /\ ~GameAccepted /\ ~InfoHit) =>
           intent = [type |-> "GENERAL_CHAT", confidence |-> 70]

\* A game phrase is in the text, is not accepted, and the default is returned.
C6_Witness ==
  /\ Analyzed
  /\ UIHits = {}
  /\ GameHits # {}
  /\ ~GameAccepted
  /\ ~InfoHit
  /\ intent.type = "GENERAL_CHAT"

\* C7: no UI phrase, a game phrase and an action word yield GAME_START for
\* the first game category in the order hwatu, pattern, memory, proverb,
\* calc, sequence that has a phrase in the text, with action START_GAME_<GAME>
\* and confidence 0.95; "hwatu sijak" yields hwatu with 0.95.
C7_GameStartWithActionWord ==
  Analyzed =>
     /\ (UIHits = {} /\ GameHits # {} /\ hasActionWord(Text)) =>
           intent = [type |-> "GAME_START",
                     action |-> GameActionsInOrder[Least(GameHits)],
                     game |-> GamesInOrder[Least(GameHits)],
                     confidence |-> 95]
     /\ (Text = HwatuStart) =>
           /\ intent.type = "GAME_START"
           /\ intent.game = GamesInOrder[1]
           /\ intent.confidence = 95

\* "hwatu sijak" together with a phrase of a later game category.
C7_Witness ==
  /\ Analyzed
  /\ UIHits = {}
  /\ Cardinality(GameHits) >= 2
  /\ includes(Text, HwatuStart)
  /\ intent.type = "GAME_START"

\* C8: without an action word, a transcript whose game phrases all have at
\* most two characters is never GAME_START; with no UI phrase it goes on to
\* the INFO_REQUEST check and then to GENERAL_CHAT.
C8_ShortKeywordAlone ==
  (Analyzed /\ ~hasActionWord(Text) /\ OnlyShortGameMatches) =>
     /\ intent.type # "GAME_START"
     /\ (UIHits = {}) =>
           intent = IF InfoHit THEN [type |-> "INFO_REQUEST", confidence |-> 85]
                    ELSE [type |-> "GENERAL_CHAT", confidence |-> 70]

\* The transcript "sutja" alone.
C8_Witness ==
  /\ Analyzed
  /\ Text = NumberWord
  /\ intent.type = "GENERAL_CHAT"

\* C9: with no UI phrase and no action word, GAME_START is returned exactly
\* when a game category has a phrase longer than two characters in the text
\* and one of its first three phrases in the text; the result names the first
\* such category with confidence 0.85.  GAME_START with 0.85 occurs only
\* without an action word, and a phrase containing the game or start marker
\* is in the text only together with an action word.
C9_AcceptanceWithoutActionWord ==
  Analyzed =>
     /\ (UIHits = {} /\ ~hasActionWord(Text)) =>
           /\ (intent.type = "GAME_START") <=> (LongLeadingGames # {})
           /\ (LongLeadingGames # {}) =>
                 intent = [type |-> "GAME_START",
                           action |-> GameActionsInOrder[Least(LongLeadingGames)],
                           game |-> GamesInOrder[Least(LongLeadingGames)],
                           confidence |-> 85]
     /\ (intent.type = "GAME_START" /\ intent.confidence = 85) => ~hasActionWord(Text)
     /\ \A g \in DOMAIN GAME_START : \A k \in DOMAIN GAME_START[g].keywords :
           (/\ includes(Text, GAME_START[g].keywords[k])
            /\ \/ includes(GAME_START[g].keywords[k], GameWord)
               \/ includes(GAME_START[g].keywords[k], StartWord))
              => hasActionWord(Text)

\* A game is started with confidence 0.85 on the game's name alone.
C9_Witness ==
  /\ Analyzed
  /\ UIHits = {}
  /\ ~hasActionWord(Text)
  /\ intent.type = "GAME_START"
  /\ intent.confidence = 85

\* C10: every result has one of the four types; action is set exactly for
\* GAME_START and UI_CONTROL, game exactly for GAME_START; a GAME_START
\* action is START_GAME_ followed by the upper-cased game id; confidence is
\* 0.95, 0.85 or 0.7, with 0.95 for UI_CONTROL, 0.85 for INFO_REQUEST and 0.7
\* for GENERAL_CHAT.
C10_IntentShape ==
  Analyzed =>
     /\ intent.type \in IntentTypes
     /\ DOMAIN intent \subseteq {"type", "action", "game", "confidence"}
     /\ ("action" \in DOMAIN intent) <=> (intent.type \in {"GAME_START", "UI_CONTROL"})
     /\ ("game" \in DOMAIN intent) <=> (intent.type = "GAME_START")
     /\ (intent.type = "GAME_START") =>
           \E g \in DOMAIN GamesInOrder :
              /\ intent.game = GamesInOrder[g]
              /\ intent.action = GameActionsInOrder[g]
     /\ intent.confidence \in {95, 85, 70}
     /\ intent.confidence > 0 /\ intent.confidence <= 100
     /\ (intent.type = "UI_CONTROL") => intent.confidence = 95
     /\ (intent.type = "INFO_REQUEST") => intent.confidence = 85
     /\ (intent.type = "GENERAL_CHAT") => intent.confidence = 70

\* A GAME_START result, which carries all four properties.
C10_Witness ==
  /\ Analyzed
  /\ intent.type = "GAME_START"
  /\ intent.confidence = 85
  /\ Len(intent.action) = Len(START_GAME_) + Len(intent.game)

ExplainWord == <<"seol", "myeong", "hae", "jwo">>    \* 설명해줘

\* C11: the categories are evaluated in the order UI_CONTROL, GAME_START,
\* INFO_REQUEST, GENERAL_CHAT: the result is {type: INFO_REQUEST,
\* confidence: 0.85} exactly when the normalized text contains an info
\* phrase, no UI phrase, and no game match is accepted; a text with an info
\* phrase and an accepted game match, such as a game phrase followed by
\* "seolmyeonghaejwo" (which contains the action word "haejwo"), is
\* classified GAME_START.
C11_InfoRequestAfterGameStart ==
  Analyzed =>
     /\ (intent.type = "INFO_REQUEST") <=> (InfoHit /\ UIHits = {} /\ ~GameAccepted)
     /\ (intent.type = "INFO_REQUEST") =>
           intent = [type |-> "INFO_REQUEST", confidence |-> 85]
     /\ (InfoHit /\ UIHits = {} /\ GameAccepted) => intent.type = "GAME_START"
     /\ (UIHits = {} /\ GameHits # {} /\ includes(Text, ExplainWord)) =>
           /\ hasActionWord(Text)
           /\ intent.type = "GAME_START"
           /\ intent.confidence = 95

\* A game phrase with "seolmyeonghaejwo" is a game start.
C11_Witness ==
  /\ Analyzed
  /\ UIHits = {}
  /\ GameHits # {}
  /\ includes(Text, ExplainWord)
  /\ InfoHit
  /\ intent.type = "GAME_START"

(***************************************************************************)
(* Properties of the component.                                            *)
(***************************************************************************)
\* The handleUserSpeech invocations that have passed the guards and have not
\* reached their finally block.
DispatchesInFlight == {i \in DOMAIN calls : calls[i].kind = "handleUserSpeech"}

\* An utterance of the avatar is playing: AVATAR_START_TALKING was signalled
\* and the AVATAR_STOP_TALKING that ends it was not.
AvatarIsTalking == talking > 0

\* The recognizer delivers results.
Listening == webSpeechRef.exists /\ webSpeechRef.started /\ ~webSpeechRef.paused

\* A step in which a transcript arrives, as a final result or as a text.
TranscriptArrives == \E t \in Utterances : FinalResult(t) \/ TextSubmit(t)

\* A step that issues a chat request, and the request it issues.
ChatRequestIssued == Len(chatRequests') = Len(chatRequests) + 1

IssuedRequest == chatRequests'[Len(chatRequests')]

\* C2: in every reachable state at most one handleUserSpeech invocation has
\* passed the isProcessingRef guard without having reached its finally block.
C2_AtMostOneDispatchInFlight == Cardinality(DispatchesInFlight) <= 1

\* C3: a transcript that arrives while an utterance of the avatar is playing
\* is dropped: the step posts no VOICE_COMMAND, issues no chat request, leaves
\* the chat history alone and starts no dispatch.
C3_DroppedWhileTalking ==
  [][(AvatarIsTalking /\ TranscriptArrives)
       => UNCHANGED <<voiceCommands, chatRequests, chatHistory, isProcessingRef, calls>>]_vars

\* C4: a speak() that fails leaves the speaking flag cleared and an existing
\* recognizer resumed, and speakWithAvatar returns to its caller, which goes
\* on as after a speech that succeeded: handleUserSpeech releases its guard,
\* the STREAM_READY handler records the greeting.  An interrupt() that fails
\* is followed by the speak() call, with the flag still set.
C4_FailOpen ==
  [][\A i \in DOMAIN calls :
       /\ SpeakReturns(i, FALSE) =>
            /\ ~isAvatarSpeakingRef' /\ ~isAvatarSpeaking'
            /\ webSpeechRef.exists => (webSpeechRef'.exists /\ ~webSpeechRef'.paused)
            /\ Len(calls') = Len(calls) - 1
            /\ calls[i].kind = "handleUserSpeech" => (~isProcessingRef' /\ ~isLoading')
            /\ calls[i].kind = "STREAM_READY" =>
                 (hasGreetedRef' /\ chatHistory' = <<ChatMessage("assistant", calls[i].text)>>)
       /\ InterruptReturns(i, FALSE) =>
            /\ calls'[i] = [calls[i] EXCEPT !.pc = "speak"]
            /\ isAvatarSpeakingRef' = isAvatarSpeakingRef
            /\ webSpeechRef' = webSpeechRef]_vars

\* C4, witness: speak() has failed during a dispatch; the flag is cleared, the
\* guard released and the recognizer delivers results again.
C4_Witness ==
  /\ speakErrors > 0
  /\ calls = <<>>
  /\ Len(voiceCommands) + Len(chatRequests) > 0
  /\ ~isAvatarSpeakingRef /\ ~isProcessingRef
  /\ Listening

\* C5: the history a chat request carries is the chat history as it stands
\* when the dispatch that issues the request starts.
C5_HistoryRoundTrip ==
  [][ChatRequestIssued => IssuedRequest.history = chatHistory]_vars


\* What a handleUserSpeech that passes its guards does on every branch: it
\* appends the user's message to the chat history and leaves the session, the
\* avatar's queue and the timers alone.
DispatchFrame ==
  /\ Len(chatHistory') > Len(chatHistory)
  /\ UNCHANGED <<hasGreetedRef, hasStartedRef, userNameRef, avatarRef, sessionState,
                 queued, talking, startTimers, resumeTimers, sessions, speakErrors>>

\* A step on which handleUserSpeech can have passed its guards: the avatar is
\* silent, no dispatch is in progress, and the step has the frame of one.
DispatchPossible == ~isAvatarSpeakingRef /\ ~isProcessingRef /\ DispatchFrame

\* The first thing every branch of handleUserSpeech(t) appends to the chat
\* history is the user's message.
UserMessageAppended(t) == chatHistory'[Len(chatHistory) + 1] = ChatMessage("user", t)

\* A final result of the recognizer, or a submitted text, passes every guard:
\* handleUserSpeech goes on to classify the transcript.
VoiceDispatch(u) ==
  DispatchPossible /\ passesGuards(u) /\ UserMessageAppended(u) /\ FinalResult(u)

TextDispatch(u) ==
  /\ DispatchPossible /\ avatarRef /\ ~isLoading
  /\ trim(u) # <<>> /\ passesGuards(trim(u)) /\ UserMessageAppended(trim(u))
  /\ TextSubmit(u)

DispatchStarts ==
  DispatchPossible /\ \E u \in DispatcherUtterances : VoiceDispatch(u) \/ TextDispatch(u)

\* The handleUserSpeech invocations at an await with this position.
DispatchesAt(pcs) ==
  {i \in DOMAIN calls : calls[i].kind = "handleUserSpeech" /\ calls[i].pc \in pcs}

\* The same sets in the next state.
DispatchesAtNext(pcs) ==
  {i \in DOMAIN calls' : calls'[i].kind = "handleUserSpeech" /\ calls'[i].pc \in pcs}

AllPositions == {"chat", "delay", "interrupt", "speak"}

\* What the dispatch of transcript t does before its first await.
BranchTaken(t) ==
  LET r == analyzeVoiceIntent(t) IN
  /\ r.type \in IntentTypes
  /\ (r.type = "GAME_START") =>
        /\ voiceCommands' =
              Append(voiceCommands,
                     [type |-> "VOICE_COMMAND", action |-> r.action, game |-> r.game])
        /\ chatRequests' = chatRequests
        /\ DispatchesAtNext({"chat"}) = {}
  /\ (r.type = "UI_CONTROL") =>
        /\ voiceCommands' =
              Append(voiceCommands, [type |-> "VOICE_COMMAND", action |-> r.action])
        /\ chatRequests' = chatRequests
        /\ DispatchesAtNext({"chat"}) = {}
  /\ (r.type \in {"INFO_REQUEST", "GENERAL_CHAT"}) =>
        /\ voiceCommands' = voiceCommands
        /\ Len(chatRequests') = Len(chatRequests) + 1
        /\ SubSeq(chatRequests', 1, Len(chatRequests)) = chatRequests
        /\ chatRequests'[Len(chatRequests')].type = "chat"
        /\ chatRequests'[Len(chatRequests')].message = t
        /\ DispatchesAtNext({"delay", "interrupt", "speak"}) = {}
  /\ Cardinality(DispatchesAtNext(AllPositions)) <= Cardinality(DispatchesAt(AllPositions)) + 1

\* C12: the branches of the dispatcher are mutually exclusive and exhaustive.
\* A dispatched transcript takes the one branch its intent type selects: a
\* GAME_START dispatch posts one VOICE_COMMAND with action and game and sends
\* no chat request, a UI_CONTROL dispatch posts one VOICE_COMMAND with action
\* only and sends no chat request, an INFO_REQUEST or GENERAL_CHAT dispatch
\* sends one chat request and posts no VOICE_COMMAND.  No later step of a
\* dispatch posts or sends anything, and a dispatch enters speakWithAvatar at
\* most once: at once on the command branches, after the chat reply on the
\* chat branch, and it ends when speakWithAvatar returns.
C12_OneBranchPerDispatch ==
  [][/\ DispatchPossible =>
          \A u \in DispatcherUtterances :
             /\ VoiceDispatch(u) => BranchTaken(u)
             /\ TextDispatch(u) => BranchTaken(trim(u))
     /\ ~DispatchStarts =>
          /\ UNCHANGED <<voiceCommands, chatRequests>>
          /\ Cardinality(DispatchesAtNext(AllPositions)) <= Cardinality(DispatchesAt(AllPositions))
          /\ Cardinality(DispatchesAtNext({"chat"})) <= Cardinality(DispatchesAt({"chat"}))
          /\ Cardinality(DispatchesAtNext({"delay"})) > Cardinality(DispatchesAt({"delay"}))
                => Cardinality(DispatchesAtNext({"chat"})) < Cardinality(DispatchesAt({"chat"}))]_vars

\* A game was started by one dispatch and a question sent to the chat
\* endpoint by another, and both dispatches have ended.
C12_Witness ==
  /\ Len(voiceCommands) = 1
  /\ "game" \in DOMAIN voiceCommands[1]
  /\ Len(chatRequests) = 1
  /\ analyzeVoiceIntent(chatRequests[1].message).type = "INFO_REQUEST"
  /\ DispatchesAt(AllPositions) = {}
  /\ ~isProcessingRef


\* The confirmation of a command, read from the tables: the template around
\* the game's name, or the entry of the action in UI_RESPONSES.
Confirmation(r) ==
  IF r.type = "GAME_START"
    THEN GameResponsePrefix
           \o GAME_NAMES[CHOOSE n \in DOMAIN GAME_NAMES : GAME_NAMES[n].game = r.game].name
           \o GameResponseSuffix
    ELSE UI_RESPONSES[CHOOSE n \in DOMAIN UI_RESPONSES :
                        UI_RESPONSES[n].action = r.action].response

\* The confirmation that belongs to a posted message.
ConfirmationOf(cmd) ==
  IF "game" \in DOMAIN cmd
    THEN Confirmation([type |-> "GAME_START", game |-> cmd.game, action |-> cmd.action])
    ELSE Confirmation([type |-> "UI_CONTROL", action |-> cmd.action])

\* The texts a dispatch passes to speakWithAvatar after a chat request.
ChatReplies == {ServerReply, NoReplyText, ChatErrorText}

\* The dispatch of a command t: the message is posted, and speakWithAvatar
\* has been entered with the confirmation and is at its first await, before
\* interrupt() and speak().
CommandPosted(t) ==
  LET r == analyzeVoiceIntent(t) IN
  (r.type \in {"GAME_START", "UI_CONTROL"}) =>
     /\ Len(voiceCommands') = Len(voiceCommands) + 1
     /\ voiceCommands'[Len(voiceCommands')].action = r.action
     /\ avatarRef =>
           /\ Len(calls') = Len(calls) + 1
           /\ calls'[Len(calls')].kind = "handleUserSpeech"
           /\ calls'[Len(calls')].pc = "delay"
           /\ calls'[Len(calls')].text = Confirmation(r)
     /\ ~avatarRef => calls' = calls

\* C13: a GAME_START or UI_CONTROL dispatch posts its VOICE_COMMAND before the
\* confirmation is requested from the avatar, and waits for no answer to it:
\* the message is posted in the step that enters speakWithAvatar, whether or
\* not an avatar exists; while the dispatch is inside speakWithAvatar its
\* message is among those posted; a speak() that fails leaves the posted
\* messages as they are.  The text spoken is the template around the game's
\* name for GAME_START and the entry of the action in UI_RESPONSES for
\* UI_CONTROL.
C13_CommandBeforeSpeech ==
  [][/\ DispatchPossible =>
          \A u \in DispatcherUtterances :
             /\ VoiceDispatch(u) => CommandPosted(u)
             /\ TextDispatch(u) => CommandPosted(trim(u))
     /\ \A i \in DispatchesAt({"delay", "interrupt", "speak"}) :
          /\ calls[i].text \notin ChatReplies =>
                \E k \in DOMAIN voiceCommands : calls[i].text = ConfirmationOf(voiceCommands[k])
          /\ \A ok \in BOOLEAN : voiceCommands' = voiceCommands \/ ~SpeakReturns(i, ok)
     /\ Len(voiceCommands') >= Len(voiceCommands)
     /\ SubSeq(voiceCommands', 1, Len(voiceCommands)) = voiceCommands]_vars

\* A command was posted and the speak() of its confirmation failed: nothing
\* was spoken, the greeting has not been spoken yet, the dispatch has ended.
C13_Witness ==
  /\ Len(voiceCommands) = 1
  /\ speakErrors = 1
  /\ ~hasGreetedRef
  /\ \A i \in DOMAIN calls : calls[i].kind = "STREAM_READY" /\ calls[i].pc = "wait"
  /\ queued = 0 /\ talking = 0
  /\ Len(chatHistory) = 2
  /\ ~isProcessingRef


\* The recognizer delivers a final transcript.
FinalTranscriptArrives == \E t \in Utterances : FinalResult(t)

\* C14: a final transcript that arrives while a previous dispatch is still
\* being processed is dropped and not queued: at its arrival nothing is
\* classified, no VOICE_COMMAND is posted, no chat request is sent, the chat
\* history gets no entry and no invocation is added that could process it
\* later.
C14_DroppedWhileProcessing ==
  [][(DispatchesInFlight # {} /\ FinalTranscriptArrives) =>
        UNCHANGED <<voiceCommands, chatRequests, chatHistory, isProcessingRef,
                    isLoading, calls>>]_vars


\* The invocations of speakWithAvatar at this await, now and in the next state.
SpeakingAt(pc) == {i \in DOMAIN calls : calls[i].pc = pc}

SpeakingAtNext(pc) == {i \in DOMAIN calls' : calls'[i].pc = pc}

\* C15 as stated: an utterance interrupts first, then waits the settle delay,
\* then speaks; so when the wait of an invocation is over its interrupt() has
\* settled already and speak() is what it calls next.
C15_InterruptThenDelay ==
  [][\A i \in DOMAIN calls : SpeakDelayFires(i) => calls'[i].pc = "speak"]_vars

\* C15 as the code has it: an utterance waits the settle delay first, then
\* calls interrupt(), then speak().  An invocation comes to interrupt() only
\* from the wait, and to speak() only from an interrupt() that has settled,
\* by success or by a rejection that is ignored; speak() is never called
\* before both the wait and the interrupt() are over.
C15_DelayThenInterrupt ==
  [][/\ \A i \in DOMAIN calls :
          /\ SpeakDelayFires(i) => calls'[i].pc = "interrupt"
          /\ \A ok \in BOOLEAN :
                InterruptReturns(i, ok) => (calls[i].pc = "interrupt" /\ calls'[i].pc = "speak")
     /\ Cardinality(SpeakingAtNext("speak")) > Cardinality(SpeakingAt("speak"))
          => Cardinality(SpeakingAtNext("interrupt")) < Cardinality(SpeakingAt("interrupt"))
     /\ Cardinality(SpeakingAtNext("interrupt")) > Cardinality(SpeakingAt("interrupt"))
          => Cardinality(SpeakingAtNext("delay")) < Cardinality(SpeakingAt("delay"))]_vars

\* The confirmation of a command and the greeting are both on their way: one
\* invocation has waited and interrupted and is at speak(), the other is
\* still waiting.
C15_Witness ==
  /\ Len(calls) = 2
  /\ \E i, j \in DOMAIN calls :
        /\ calls[i].kind = "handleUserSpeech" /\ calls[i].pc = "speak"
        /\ calls[j].kind = "STREAM_READY" /\ calls[j].pc = "delay"


\* C16: at every AVATAR_STOP_TALKING the speaking flag is cleared at once and
\* the recognizer is left as it is; the handler resumes it when the guard
\* delay is over, not before, and with a recognizer in place the recognizer
\* is then not paused.  So, timers firing, after each end of an utterance the
\* recognizer is eventually resumed.
C16_ResumeAfterGuardDelay ==
  /\ [][/\ AvatarStopTalking =>
             /\ ~isAvatarSpeakingRef' /\ ~isAvatarSpeaking'
             /\ webSpeechRef' = webSpeechRef
             /\ resumeTimers' = resumeTimers + 1
        /\ ResumeTimerFires =>
             /\ resumeTimers' = resumeTimers - 1
             /\ webSpeechRef.exists => (webSpeechRef'.exists /\ ~webSpeechRef'.paused)]_vars
  /\ [](resumeTimers > 0 => <>(webSpeechRef.exists => ~webSpeechRef.paused))

\* The greeting has been spoken to its end and the recognizer, paused while
\* it played, delivers results again.
C16_Witness ==
  /\ hasGreetedRef
  /\ speakErrors = 0
  /\ Dispatched = 0
  /\ calls = <<>>
  /\ queued = 0 /\ talking = 0 /\ resumeTimers = 0
  /\ ~isAvatarSpeakingRef
  /\ Listening


\* C17: only one voice is active at a time: AVATAR_START_TALKING pauses the
\* recognizer at once, and while the avatar is speaking, after an
\* AVATAR_START_TALKING and before its AVATAR_STOP_TALKING, the recognizer
\* stays paused: no step resumes a paused recognizer while an utterance is
\* playing, be it the delayed resume of an earlier AVATAR_STOP_TALKING or the
\* resume of a speakWithAvatar call that failed.
C17_PausedWhileTalking ==
  [][/\ AvatarStartTalking => (webSpeechRef.exists => webSpeechRef'.paused)
     /\ (AvatarIsTalking /\ talking' > 0 /\ webSpeechRef.exists /\ webSpeechRef.paused)
          => (webSpeechRef'.exists => webSpeechRef'.paused)]_vars


\* The fixed text that stands in for the reply: the apology when the request
\* throws, the no-reply text when the answer has no reply field.
Substitute(outcome) == IF outcome = "error" THEN ChatErrorText ELSE NoReplyText

\* C18: a failure of the chat endpoint is not fatal and not retried.  When
\* the chat request of a dispatch fails, no further request is sent, the
\* fixed apology takes the place of the reply: it is appended to the chat
\* history as the assistant's turn and passed to speakWithAvatar; when the
\* dispatch ends the processing flag is cleared, so that the next transcript
\* is dispatched.  An answer without a reply is handled the same way with
\* its own fixed text.
C18_ChatFailureApology ==
  [][\A i \in DispatchesAt(AllPositions) :
        /\ \A outcome \in {"error", "empty"} :
              ChatReturns(i, outcome) =>
                 /\ chatRequests' = chatRequests
                 /\ voiceCommands' = voiceCommands
                 /\ chatHistory' =
                      Append(chatHistory, ChatMessage("assistant", Substitute(outcome)))
                 /\ avatarRef =>
                       /\ calls' = [calls EXCEPT ![i].pc = "delay",
                                                 ![i].text = Substitute(outcome)]
                       /\ isProcessingRef' = isProcessingRef
                 /\ ~avatarRef => (calls' = Remove(calls, i) /\ ~isProcessingRef')
        /\ \A ok \in BOOLEAN :
              SpeakReturns(i, ok) =>
                 /\ ~isProcessingRef' /\ ~isLoading'
                 /\ calls' = Remove(calls, i)
                 /\ chatRequests' = chatRequests]_vars

\* The first dispatch got the apology for an answer, and the transcript after
\* it was dispatched as a command.
C18_Witness ==
  /\ Len(chatRequests) = 1
  /\ Len(voiceCommands) = 1
  /\ Len(chatHistory) = 4
  /\ chatHistory[2] = ChatMessage("assistant", ChatErrorText)
  /\ chatHistory[3].role = "user"
  /\ DispatchesAt(AllPositions) = {}
  /\ ~isProcessingRef


\* Sequence s is an initial part of sequence t.
IsPrefix(s, t) == Len(s) <= Len(t) /\ SubSeq(t, 1, Len(s)) = s

\* The step of resetSession that clears the state.
SessionIsReset == \E i \in DOMAIN calls, ok \in BOOLEAN : HookStopReturns(i, ok)

\* C19: the chat history is append-only and ordered within a session: apart
\* from the clearing by resetSession, every step leaves the history as it is
\* or adds entries at its end; no dispatch, no greeting of STREAM_READY and
\* no interleaving of them removes, replaces or reorders an entry.
C19_HistoryAppendOnly ==
  [][SessionIsReset \/ IsPrefix(chatHistory, chatHistory')]_vars


\* What callChatAPI hands back for each way the request can end.
ReplyText(outcome) ==
  CASE outcome = "reply" -> ServerReply
    [] outcome = "empty" -> NoReplyText
    [] outcome = "error" -> ChatErrorText

\* C20: an in-flight chat call is not cancelled.  Whenever the chat request
\* of a dispatch returns, its reply is appended to the chat history as it
\* then is and passed to speakWithAvatar, which, with an avatar in place,
\* sets the speaking flag and pauses the recognizer; this is so also when the
\* session was reset or started again by START_AVATAR in between.  Nothing
\* compares the reply with the session it was requested in.
C20_NoCancellation ==
  [][\A i \in DispatchesAt({"chat"}) : \A outcome \in ChatOutcomes :
        ChatReturns(i, outcome) =>
           /\ chatHistory' = Append(chatHistory, ChatMessage("assistant", ReplyText(outcome)))
           /\ avatarRef =>
                 /\ calls' = [calls EXCEPT ![i].pc = "delay", ![i].text = ReplyText(outcome)]
                 /\ isAvatarSpeakingRef' /\ isAvatarSpeaking'
                 /\ webSpeechRef.exists => webSpeechRef'.paused]_vars

\* The reply to a request of the first session arrived in the second: the
\* history, cleared by the reset, holds the reply without the user's turn,
\* and the reply is on its way to the avatar.
C20_Witness ==
  /\ sessions = 2
  /\ sessionState = "connected"
  /\ chatHistory = <<ChatMessage("assistant", ServerReply)>>
  /\ \E i \in DispatchesAt({"delay"}) : calls[i].text = ServerReply
  /\ ~isProcessingRef

(***************************************************************************)
(* Normalisation.                                                          *)
(***************************************************************************)
\* The transcript with blanks before and after it.
Padded(t) == <<" ", "\t">> \o t \o <<"\n", " ">>

\* The transcript with every blank followed by one more.
RECURSIVE Widened(_)
Widened(t) ==
  IF t = <<>> THEN <<>>
  ELSE IF IsWhitespace(Head(t))
         THEN <<Head(t), " ">> \o Widened(Tail(t))
         ELSE <<Head(t)>> \o Widened(Tail(t))

\* Spellings of the transcript that differ from it in letter case, in the
\* length of the runs of blanks, or in the blanks around it.
Respellings(t) ==
  {Padded(t), Widened(toUpperCase(t)), toLowerCase(t)}

\* C21: classification depends only on the normalized transcript.
\* Normalizing a normalized text changes nothing; a transcript respelled with
\* other letter case, longer runs of blanks or blanks around it gets the same
\* intent; every transcript gets the intent of its normalized form, so two
\* inputs with the same normalized form get the same intent; a second call
\* returns the same intent; the component is as it was constructed.
C21_NormalizedFormDecides ==
  Analyzed =>
    /\ normalizedText(Text) = Text
    /\ \A v \in Respellings(transcript) :
          /\ normalizedText(v) = Text
          /\ analyzeVoiceIntent(v) = intent
    /\ analyzeVoiceIntent(Text) = intent
    /\ analyzeVoiceIntent(transcript) = intent
    /\ InitComponent

\* A transcript that is not in normalized form was classified as a command,
\* and another input has the same normalized form.
C21_Witness ==
  /\ Analyzed
  /\ transcript # Text
  /\ intent.type = "UI_CONTROL"
  /\ \E u \in Transcripts : u # transcript /\ normalizedText(u) = Text

(***************************************************************************)
(* The entries a dispatch adds to the chat history.                        *)
(***************************************************************************)
\* The chat reply of a dispatch arrives.
ReplyArrives(i, outcome) ==
  calls[i].kind = "handleUserSpeech" /\ calls[i].pc = "chat" /\ ChatReturns(i, outcome)

\* What the dispatch of transcript t appends before its first await: a
\* command appends the user's entry and the confirmation together, a chat
\* dispatch the user's entry alone.
EntriesAtDispatch(t) ==
  LET r == analyzeVoiceIntent(t) IN
  IF r.type \in {"GAME_START", "UI_CONTROL"}
    THEN chatHistory' =
           chatHistory \o <<ChatMessage("user", t), ChatMessage("assistant", Confirmation(r))>>
    ELSE chatHistory' = Append(chatHistory, ChatMessage("user", t))

\* C22: a dispatch adds two entries to the chat history, the user's
\* transcript and right after it the assistant's response to it.  A command
\* appends both in one step.  A chat dispatch appends the user's entry when
\* the request is issued; when the reply arrives that entry is still the last
\* one of the history, and the reply or the text that stands in for it is
\* appended behind it.
C22_UserThenAssistant ==
  [][/\ DispatchPossible =>
          \A u \in Utterances :
             /\ VoiceDispatch(u) => EntriesAtDispatch(u)
             /\ TextDispatch(u) => EntriesAtDispatch(trim(u))
     /\ \A i \in DispatchesAt({"chat"}), outcome \in ChatOutcomes :
          ReplyArrives(i, outcome) =>
             /\ chatHistory # <<>>
             /\ chatHistory[Len(chatHistory)] =
                   ChatMessage("user", chatRequests[Len(chatRequests)].message)
             /\ chatHistory' =
                   Append(chatHistory, ChatMessage("assistant", callChatAPIResult(outcome)))]_vars

(***************************************************************************)
(* The auto-start variant.                                                 *)
(***************************************************************************)
\* C23: after the mount the session is started automatically, once: the
\* timer the effect sets is never cleared while it is pending, it makes at
\* most one startSessionV2(true) call, and it does make that call.
C23_AutoStartOnce ==
  /\ [][autoStartEffect.timer = "armed" => autoStartEffect'.timer # "cleared"]_vars
  /\ [](autoStarts <= 1)
  /\ <>(autoStarts = 1)

(***************************************************************************)
(* Text input and voice input.                                             *)
(***************************************************************************)
\* handleSendMessage would pass the text on to handleUserSpeech.
TextAccepted == sessionState = "connected" /\ ~isLoading /\ ~isAvatarSpeaking /\ avatarRef

\* C24: a text submission is processed as a final result of the recognizer
\* with the same transcript is.  In a state where both inputs are accepted,
\* the dispatch of a non-blank t that arrives by voice leaves the component
\* in the state the submission of t as text leaves it in, and the other way
\* round: same VOICE_COMMAND, same chat request with the same history, same
\* chat history, same flags.
C24_TextAsVoice ==
  [][DispatchPossible =>
       \A t \in Utterances :
          trim(t) = t /\ t # <<>> =>
             /\ VoiceDispatch(t) /\ TextAccepted => TextSubmit(t)
             /\ TextDispatch(t) /\ Listening => FinalResult(t)]_vars

(***************************************************************************)
(* Sessions: start, reset, disconnect.                                     *)
(***************************************************************************)
\* The startSession invocations past the hasStartedRef guard that have not
\* returned yet.
StartsInFlight == {i \in DOMAIN calls : calls[i].kind = "startSession"}

\* C25: at most one startSession invocation is past the hasStartedRef guard
\* and before its completion at any time.
C25_OneStartInFlight == Cardinality(StartsInFlight) <= 1

\* The STREAM_READY handlers that have passed the hasGreetedRef test and have
\* not yet set the flag: each requests one greeting utterance and sets the
\* chat history to the greeting.
GreetingsInFlight == {i \in DOMAIN calls : calls[i].kind = "STREAM_READY"}

\* C26: the greeting is spoken at most once per session: a further delivery
\* of STREAM_READY in a connected session, also one that arrives while the
\* first handler is still awaiting its delay, the chat call or the speech,
\* starts no second greeting.
C26_GreetingOncePerSession ==
  [][StreamReadyAgain => GreetingsInFlight' = GreetingsInFlight]_vars

\* The resetSession calls that have cleared the refs and the state (lines
\* 536-546) and are in their last wait.
ResetsCleared == {j \in DOMAIN calls : calls[j].kind = "resetSession" /\ calls[j].pc = "wait"}

\* Call i, which is not a resetSession call, goes on after one of its awaits.
Resumes(i) ==
  /\ calls[i].kind # "resetSession"
  /\ \/ \E ok \in BOOLEAN : TokenReturns(i, ok)
     \/ \E ok \in BOOLEAN : StartAvatarReturns(i, ok)
     \/ GreetingDelayFires(i)
     \/ \E outcome \in ChatOutcomes : ChatReturns(i, outcome)
     \/ SpeakDelayFires(i)
     \/ \E ok \in BOOLEAN : InterruptReturns(i, ok)
     \/ \E ok \in BOOLEAN : SpeakReturns(i, ok)

\* C27: once resetSession has cleared the component, work that was begun
\* before the reset (a dispatch, a greeting, a startSession awaiting the token
\* or startAvatar) creates or starts no recognizer, adds no history entry,
\* posts no VOICE_COMMAND and queues no utterance.
C27_NothingFromBeforeReset ==
  [][\A j \in ResetsCleared : \A i \in 1..(j - 1) :
       Resumes(i) => UNCHANGED <<webSpeechRef, startTimers, chatHistory, voiceCommands, queued>>]_vars

\* A session has failed or was disconnected and startSession has not been
\* called since: no session exists and no startSession call is in flight.
SessionOver == sessions > 0 /\ sessionState = "inactive" /\ StartsInFlight = {}

\* C28: after a failed token request, a failed startAvatar or
\* STREAM_DISCONNECTED the session can be started again: hasStartedRef is
\* clear, so the next startSession call is not ignored; no recognizer is
\* left, so it creates a fresh one; hasGreetedRef is clear, so it greets again.
C28_CanStartAgain ==
  SessionOver => ~hasStartedRef /\ webSpeechRef = NoRecognizer /\ ~hasGreetedRef

\* The processing lock is free: no dispatch is in flight and both flags are clear.
Released == DispatchesInFlight = {} /\ ~isProcessingRef /\ ~isLoading

\* C29: every dispatch that passes the guards eventually releases
\* isProcessingRef and isLoading, whichever branch it takes and whether the
\* chat call, interrupt() and speak() succeed or fail.
C29_DispatchReleases == (DispatchesInFlight # {}) ~> Released

\* A dispatch that asked the chat endpoint, whose speak() failed, is over.
C29_Witness ==
  /\ Released
  /\ chatRequests # <<>>
  /\ speakErrors > 0
  /\ Len(chatHistory) >= 2
  /\ chatHistory[Len(chatHistory)].role = "assistant"

\* C30: in the OpenAI-chat variant at most one chat cycle is in flight at a
\* time across the voice path and the text path.
C30_OneCycleInFlight == Cardinality(CyclesInFlight) <= 1

(***************************************************************************)
(* The microphone.                                                         *)
(***************************************************************************)
\* C31: a manual mute is preserved: when the user has paused the recognizer
\* with toggleMicrophone, no step other than the next toggleMicrophone, be it
\* an avatar speech event, its timer or the error path of speakWithAvatar,
\* resumes the recognizer.
C31_MuteIsKept == [][userPaused /\ userPaused' => webSpeechRef'.paused]_vars

\* A transcript is dispatched: a VOICE_COMMAND is posted or a chat request
\* sent, or the processing flag is set.
DispatchHappens == Dispatched' # Dispatched \/ (isProcessingRef' /\ ~isProcessingRef)

\* C32: only final, non-blank transcripts are dispatched.  A dispatch is the
\* step of a final result or a text submission that is not blank; an interim
\* result changes nothing but the interim display, and not that while the
\* avatar is speaking; a blank transcript sets no processing flag, posts no
\* command, sends no request and leaves the history alone.
C32_OnlyFinalNonBlank ==
  [][/\ DispatchHappens =>
          \E t \in DispatcherUtterances :
            trim(t) # <<>> /\ (FinalResult(t) \/ TextSubmit(t))
     /\ \A t \in InterimTranscripts :
          InterimResult(t) =>
            /\ UNCHANGED <<voiceCommands, chatRequests, chatHistory, isProcessingRef, calls>>
            /\ isAvatarSpeakingRef => UNCHANGED interimTranscript
     /\ \A t \in DispatcherUtterances :
          trim(t) = <<>> /\ (FinalResult(t) \/ TextSubmit(t)) =>
            /\ isProcessingRef' = isProcessingRef
            /\ UNCHANGED <<voiceCommands, chatRequests, chatHistory, calls>>]_vars

\* An interim result that names a command is on display and nothing has been
\* dispatched.
C32_Witness ==
  /\ interimTranscript = <<"raeng", "king">>
  /\ analyzeVoiceIntent(interimTranscript).type = "UI_CONTROL"
  /\ Dispatched = 0
  /\ chatHistory = <<>>
  /\ ~isProcessingRef

=============================================================================
